---- MODULE Spec2Model ----
(***************************************************************************)
(* Model of the Node MCP review server (src/unnamed/part_003, second       *)
(* listing, lines 484-1087): diff chunking, LINE_COMMENT parsing, diff     *)
(* position resolution and the /analyze-pr request pipeline.               *)
(*                                                                         *)
(* Strings are sequences of one-character strings, so that split, trim,    *)
(* startsWith, parseInt and length are computed on the text itself.        *)
(***************************************************************************)
EXTENDS Integers, Sequences, FiniteSets, TLC

VARIABLES
    pc,          \* position of the driver / of the request handler
    chunkArgs,   \* arguments of chunkDiffContent: [diffContent, maxChunkSize]
    chunks,      \* value returned by chunkDiffContent
    resolveArgs, \* arguments of findFileAndPositionForLine: [diffContent, lineNumber]
    resolved,    \* value returned by findFileAndPositionForLine
    parseArgs,   \* arguments of parseLineComments: [response, chunkIndex]
    parsed,      \* value returned by parseLineComments
    extractArgs, \* argument of the extract functions: [text]
    extracted,   \* what they returned: [suggestions, issues, overall_score]
    env,         \* module-level configuration: the AI clients and AI_PROVIDER
    requestId,   \* req.body, as an index into RequestTable
    chunkIdx,    \* generateAIReview: the loop variable i, index of the current chunk
    lineComments, \* generateAIReview: the comments collected so far
    reviewData,  \* the value generateAIReview returned
    commentIdx,  \* handler: index (0-based) of the line comment being posted
    anchor,      \* postLineComment: { filePath, position } of the current comment
    log,         \* history: the external calls made so far, in order
    httpResponse, \* what the handler sent back with res: [status, body]
    suspended    \* the local variables of a second invocation of the handler,
                 \* waiting at an await while this one runs

\* the variables a step of the running invocation of the handler leaves alone
pureVars ==
    <<chunkArgs, chunks, resolveArgs, resolved, parseArgs, parsed, extractArgs, extracted,
      suspended>>

reviewVars ==
    <<env, requestId, chunkIdx, lineComments, reviewData, commentIdx, anchor, log, httpResponse>>

vars == <<pc, pureVars, reviewVars>>

(***************************************************************************)
(* Bounds of the model.                                                    *)
(***************************************************************************)
MaxDiffLen == 5        \* longest diff text given to chunkDiffContent alone
MaxChunkBound == 4     \* largest maxChunkSize given to chunkDiffContent alone
MaxDiffLines == 4      \* most lines of the diffs enumerated for findFileAndPositionForLine
MaxLineNo == 3         \* largest line number asked of findFileAndPositionForLine alone
MaxRespLines == 2      \* most lines of a response given to parseLineComments alone
MaxChunkIndex == 1     \* largest chunkIndex given to parseLineComments alone
LongLineLen == 1000    \* length of the long lines of the diff that needs two chunks
MaxTextLines == 2      \* most lines of a text given to the extract functions alone
CapLines == 12         \* lines of the text with more keyword lines than are listed

(***************************************************************************)
(* JavaScript string primitives.                                           *)
(***************************************************************************)
NL == "\n"

\* String.prototype.split(sep) for a one-character separator: the pieces
\* between consecutive separators, the empty string giving one empty piece.
SepIdx(s, sep) == {i \in 1..Len(s) : s[i] = sep}

Split(s, sep) ==
    LET idx == SepIdx(s, sep)
        n == Cardinality(idx)
        kth(k) == CHOOSE i \in idx : Cardinality({j \in idx : j <= i}) = k
        first(k) == IF k = 1 THEN 1 ELSE kth(k - 1) + 1
        last(k) == IF k = n + 1 THEN Len(s) ELSE kth(k) - 1
    IN [k \in 1..(n + 1) |-> SubSeq(s, first(k), last(k))]

\* Array.prototype.join(sep): the elements with sep between consecutive ones.
RECURSIVE Join(_, _)
Join(parts, sep) ==
    IF Len(parts) = 0 THEN <<>>
    ELSE IF Len(parts) = 1 THEN parts[1]
    ELSE parts[1] \o sep \o Join(Tail(parts), sep)

\* String.prototype.startsWith(prefix)
StartsWith(s, prefix) ==
    /\ Len(s) >= Len(prefix)
    /\ SubSeq(s, 1, Len(prefix)) = prefix

\* String.prototype.substring(start) with a 0-based start
Substring(s, start) == SubSeq(s, start + 1, Len(s))

\* the literal lit occurs in s at the 1-based index i
LitAt(s, i, lit) ==
    /\ i + Len(lit) - 1 <= Len(s)
    /\ SubSeq(s, i, i + Len(lit) - 1) = lit

Digits == <<"0", "1", "2", "3", "4", "5", "6", "7", "8", "9">>

IsDigit(c) == c \in {"0", "1", "2", "3", "4", "5", "6", "7", "8", "9"}

DigitVal(c) == (CHOOSE d \in 1..10 : Digits[d] = c) - 1

\* index of the last character of the longest run of digits that starts at
\* index i (i - 1 when s[i] is not a digit): what a greedy \d* consumes
DigitsEnd(s, i) ==
    IF i > Len(s) \/ ~IsDigit(s[i]) THEN i - 1
    ELSE LET stop == {j \in i..(Len(s) + 1) : j = Len(s) + 1 \/ ~IsDigit(s[j])}
         IN (CHOOSE j \in stop : \A k \in stop : j <= k) - 1

\* value of a non-empty string of decimal digits
RECURSIVE DecimalValue(_)
DecimalValue(ds) ==
    IF Len(ds) = 0 THEN 0
    ELSE 10 * DecimalValue(SubSeq(ds, 1, Len(ds) - 1)) + DigitVal(ds[Len(ds)])

\* the characters String.prototype.trim removes and parseInt skips
IsSpace(c) == c \in {" ", "\t", "\r", "\n"}

\* String.prototype.trim()
Trim(s) ==
    LET keep == {i \in 1..Len(s) : ~IsSpace(s[i])}
    IN IF keep = {} THEN <<>>
       ELSE SubSeq(s, CHOOSE i \in keep : \A j \in keep : i <= j,
                      CHOOSE i \in keep : \A j \in keep : j <= i)

\* String.prototype.split(sep, limit): the first limit pieces of split(sep);
\* what follows them is not part of the value
SplitLimit(s, sep, limit) ==
    LET all == Split(s, sep)
    IN IF Len(all) <= limit THEN all ELSE SubSeq(all, 1, limit)

(***************************************************************************)
(* JavaScript values that are not strings or integers.                     *)
(* A number is a record: NaN, or an integer n.  null is a one-element      *)
(* tuple that is no string (the elements of a string are one character).   *)
(***************************************************************************)
NaN == [nan |-> TRUE, n |-> 0]

Num(n) == [nan |-> FALSE, n |-> n]

\* parseInt(s, 10): leading white space is skipped, then an optional sign,
\* then the longest run of digits; NaN when that run is empty.  What follows
\* the digits is ignored.
parseInt(s) ==
    LET body == {i \in 1..Len(s) : ~IsSpace(s[i])}
        b == IF body = {} THEN Len(s) + 1
             ELSE CHOOSE i \in body : \A j \in body : i <= j
        signed == b <= Len(s) /\ s[b] \in {"+", "-"}
        d == IF signed THEN b + 1 ELSE b
        e == DigitsEnd(s, d)
        v == DecimalValue(SubSeq(s, d, e))
    IN IF e < d THEN NaN
       ELSE IF signed /\ s[b] = "-" THEN Num(0 - v) ELSE Num(v)

null == <<"null">>

\* undefined, likewise a one-element tuple that is no string
undefined == <<"undefined">>

\* JavaScript truthiness of a value of type string | null | undefined
Truthy_emptyIsTrue(s) == s # null /\ s # undefined

Truthy(s) == s # null /\ s # undefined /\ Len(s) > 0

\* object.f: the value of the property, undefined when the object has none.
\* An object is a record whose fields are the properties it has.
Field(object, f) == IF f \in DOMAIN object THEN object[f] ELSE undefined

\* ${v} in a template literal, for a string or undefined
TemplateText(v) ==
    IF v = undefined THEN <<"u", "n", "d", "e", "f", "i", "n", "e", "d">> ELSE v

(***************************************************************************)
(* chunkDiffContent (part_003:946-976).                                    *)
(***************************************************************************)
DefaultMaxChunkSize == 2000

\* const lineSize = line.length + 1
lineSize_noNewline(line) == Len(line)

lineSize(line) == Len(line) + 1

\* if (currentChunk.length > 0) chunks.push(currentChunk.join('\n'))
FlushLast_dropped(done, currentChunk) == done

FlushLast(done, currentChunk) ==
    IF Len(currentChunk) > 0 THEN Append(done, Join(currentChunk, <<NL>>)) ELSE done

\* the for loop over the lines, i being the index of the next line
RECURSIVE ChunkLoop(_, _, _, _, _, _)
ChunkLoop(lines, i, done, currentChunk, currentSize, maxChunkSize) ==
    IF i > Len(lines) THEN FlushLast(done, currentChunk)
    ELSE LET line == lines[i]
             sz == lineSize(line)
         IN IF currentSize + sz > maxChunkSize /\ Len(currentChunk) > 0
            THEN ChunkLoop(lines, i + 1, Append(done, Join(currentChunk, <<NL>>)),
                           <<line>>, sz, maxChunkSize)
            ELSE ChunkLoop(lines, i + 1, done, Append(currentChunk, line),
                           currentSize + sz, maxChunkSize)

\* if (diffContent.length <= maxChunkSize) return [diffContent]
FitsInOneChunk_strict(diffContent, maxChunkSize) == Len(diffContent) < maxChunkSize

FitsInOneChunk(diffContent, maxChunkSize) == Len(diffContent) <= maxChunkSize

chunkDiffContent(diffContent, maxChunkSize) ==
    IF FitsInOneChunk(diffContent, maxChunkSize) THEN <<diffContent>>
    ELSE ChunkLoop(Split(diffContent, NL), 1, <<>>, <<>>, 0, maxChunkSize)

(***************************************************************************)
(* findFileAndPositionForLine (part_003:893-934).                          *)
(***************************************************************************)
\* line.match(/@@ -(\d+),?\d* \+(\d+),?\d* @@/) tried at index i: the end of
\* the second capture group, or 0 when the pattern does not match at i.  The
\* greedy choices decide the groups: a shorter (\d+) leaves digits that the
\* following \d* takes, so it reaches the same literals.
HunkGroup2At(s, i) ==
    IF ~LitAt(s, i, <<"@", "@", " ", "-">>) THEN [ok |-> FALSE, from |-> 0, to |-> 0]
    ELSE LET a == i + 4
             e1 == DigitsEnd(s, a)
             p2 == IF LitAt(s, e1 + 1, <<",">>) THEN e1 + 2 ELSE e1 + 1
             e2 == DigitsEnd(s, p2)
             b == e2 + 3
             e3 == DigitsEnd(s, b)
             p5 == IF LitAt(s, e3 + 1, <<",">>) THEN e3 + 2 ELSE e3 + 1
             e4 == DigitsEnd(s, p5)
         IN IF /\ e1 >= a
               /\ LitAt(s, e2 + 1, <<" ", "+">>)
               /\ e3 >= b
               /\ LitAt(s, e4 + 1, <<" ", "@", "@">>)
            THEN [ok |-> TRUE, from |-> b, to |-> e3]
            ELSE [ok |-> FALSE, from |-> 0, to |-> 0]

\* the leftmost match of the hunk-header pattern in the line, and
\* parseInt(match[2], 10) of it
HunkHeaderMatch(line) ==
    LET at == {i \in 1..Len(line) : HunkGroup2At(line, i).ok}
    IN IF at = {} THEN [ok |-> FALSE, start |-> 0]
       ELSE LET i == CHOOSE j \in at : \A k \in at : j <= k
                g == HunkGroup2At(line, i)
            IN [ok |-> TRUE, start |-> DecimalValue(SubSeq(line, g.from, g.to))]

DiffGitPrefix == <<"d", "i", "f", "f", " ", "-", "-", "g", "i", "t">>

HunkPrefix == <<"@", "@">>

\* currentFile after a 'diff --git' line: parts[3].substring(2) when the
\* line has at least 4 space-separated parts, else unchanged
FileOfHeader(line, currentFile) ==
    LET parts == Split(line, " ")
    IN IF Len(parts) >= 4 THEN Substring(parts[4], 2) ELSE currentFile

\* the effect of a context or removed line on currentPosition: none (continue)
AfterSkippedLine(currentPosition) == currentPosition

\* hunkStartLine + currentPosition - 1 === lineNumber
IsTargetLine_offByOne(hunkStartLine, currentPosition, lineNumber) ==
    ~lineNumber.nan /\ hunkStartLine + currentPosition = lineNumber.n

IsTargetLine(hunkStartLine, currentPosition, lineNumber) ==
    ~lineNumber.nan /\ hunkStartLine + currentPosition - 1 = lineNumber.n

NoMatch == [filePath |-> null, position |-> -1, at |-> 0]

\* the for loop over the lines; i is the index of the next line.  The field
\* 'at' of the value is not part of the program's result: it records the
\* index of the line at which the loop returned (0 when it ran to the end).
RECURSIVE ResolveLoop(_, _, _, _, _, _, _)
ResolveLoop(lines, i, currentFile, currentPosition, inHunk, hunkStartLine, lineNumber) ==
    IF i > Len(lines) THEN NoMatch
    ELSE LET line == lines[i]
         IN IF StartsWith(line, DiffGitPrefix)
            THEN ResolveLoop(lines, i + 1, FileOfHeader(line, currentFile), 0, FALSE,
                             hunkStartLine, lineNumber)
            ELSE IF StartsWith(line, HunkPrefix)
            THEN LET m == HunkHeaderMatch(line)
                 IN IF m.ok
                    THEN ResolveLoop(lines, i + 1, currentFile, 0, TRUE, m.start, lineNumber)
                    ELSE ResolveLoop(lines, i + 1, currentFile, currentPosition, TRUE,
                                     hunkStartLine, lineNumber)
            ELSE IF inHunk /\ Truthy(currentFile)
            THEN IF StartsWith(line, <<"+">>)
                 THEN IF IsTargetLine(hunkStartLine, currentPosition + 1, lineNumber)
                      THEN [filePath |-> currentFile, position |-> currentPosition + 1,
                            at |-> i]
                      ELSE ResolveLoop(lines, i + 1, currentFile, currentPosition + 1,
                                       inHunk, hunkStartLine, lineNumber)
                 ELSE IF StartsWith(line, <<"-">>) \/ StartsWith(line, <<" ">>)
                 THEN ResolveLoop(lines, i + 1, currentFile,
                                  AfterSkippedLine(currentPosition), inHunk,
                                  hunkStartLine, lineNumber)
                 ELSE ResolveLoop(lines, i + 1, currentFile, currentPosition, inHunk,
                                  hunkStartLine, lineNumber)
            ELSE ResolveLoop(lines, i + 1, currentFile, currentPosition, inHunk,
                             hunkStartLine, lineNumber)

findFileAndPositionForLine(diffContent, lineNumber) ==
    ResolveLoop(Split(diffContent, NL), 1, null, 0, FALSE, 0, lineNumber)

(***************************************************************************)
(* parseLineComments (part_003:978-1008).                                  *)
(***************************************************************************)
Marker == <<"L","I","N","E","_","C","O","M","M","E","N","T",":">>   \* "LINE_COMMENT:"

\* the entries one line of the response adds to lineComments.  parseInt
\* does not throw, so the catch block is never entered.
LineEntries_untrimmed(line, chunkIndex) ==
    LET trimmedLine == Trim(line)
        parts == SplitLimit(trimmedLine, ":", 3)
    IN IF StartsWith(trimmedLine, Marker) /\ Len(parts) >= 3
       THEN <<[line_number |-> parseInt(Trim(parts[2])),
               comment |-> parts[3],
               chunk_index |-> chunkIndex]>>
       ELSE <<>>

LineEntries(line, chunkIndex) ==
    LET trimmedLine == Trim(line)
        parts == SplitLimit(trimmedLine, ":", 3)
    IN IF StartsWith(trimmedLine, Marker) /\ Len(parts) >= 3
       THEN <<[line_number |-> parseInt(Trim(parts[2])),
               comment |-> Trim(parts[3]),
               chunk_index |-> chunkIndex]>>
       ELSE <<>>

RECURSIVE ParseLoop(_, _, _)
ParseLoop(lines, i, chunkIndex) ==
    IF i > Len(lines) THEN <<>>
    ELSE LineEntries(lines[i], chunkIndex) \o ParseLoop(lines, i + 1, chunkIndex)

parseLineComments_reversed(response, chunkIndex) ==
    LET found == ParseLoop(Split(response, NL), 1, chunkIndex)
    IN [e \in 1..Len(found) |-> found[Len(found) + 1 - e]]

parseLineComments(response, chunkIndex) ==
    ParseLoop(Split(response, NL), 1, chunkIndex)

(***************************************************************************)
(* generateFallbackReview and its helpers (part_003:689-800).  The pieces  *)
(* of the template literal are spelled out character by character; each   *)
(* of the four non-ASCII characters of the heading is written as '?'.      *)
(***************************************************************************)
FB_Head ==
    <<"\n","#","#"," ","?","?","?","?"," ","A","I"," ","C","o","d","e"," ",
      "R","e","v","i","e","w","\n","\n","*","*","P","R"," ","S","u","m","m",
      "a","r","y",":","*","*"," ">>

FB_Author ==
    <<"\n","*","*","A","u","t","h","o","r",":","*","*"," ","@">>

FB_Files ==
    <<"\n","*","*","F","i","l","e","s"," ","C","h","a","n","g","e","d",":",
      "*","*"," ">>

FB_Languages ==
    <<"\n","*","*","L","a","n","g","u","a","g","e","s"," ","D","e","t","e",
      "c","t","e","d",":","*","*"," ">>

FB_Analysis ==
    <<"\n","\n","#","#","#"," ","M","u","l","t","i","-","L","a","n","g","u",
      "a","g","e"," ","A","n","a","l","y","s","i","s"," ","R","e","s","u",
      "l","t","s",":","\n","\n","*","*","A","u","t","o","m","a","t","e","d",
      " ","A","n","a","l","y","s","i","s"," ","C","o","m","p","l","e","t",
      "e","d","*","*","\n","-"," ","C","o","d","e"," ","f","o","r","m","a",
      "t","t","i","n","g"," ","a","n","d"," ","l","i","n","t","i","n","g",
      " ","c","h","e","c","k","s"," ","p","a","s","s","e","d"," ","f","o",
      "r"," ","a","l","l"," ","l","a","n","g","u","a","g","e","s","\n","-",
      " ","S","e","c","u","r","i","t","y"," ","s","c","a","n"," ","c","o",
      "m","p","l","e","t","e","d"," ","(","P","y","t","h","o","n",":"," ",
      "B","a","n","d","i","t"," ","+"," ","S","a","f","e","t","y",","," ",
      "N","o","d","e",".","j","s",":"," ","n","p","m"," ","a","u","d","i",
      "t",")","\n","-"," ","M","u","l","t","i","-","l","a","n","g","u","a",
      "g","e"," ","d","e","p","e","n","d","e","n","c","y"," ","r","e","v",
      "i","e","w"," ","c","o","m","p","l","e","t","e","d","\n","-"," ","T",
      "y","p","e"," ","c","h","e","c","k","i","n","g"," ","c","o","m","p",
      "l","e","t","e","d"," ","w","h","e","r","e"," ","a","p","p","l","i",
      "c","a","b","l","e","\n","\n","#","#","#"," ","C","h","a","n","g","e",
      "d"," ","F","i","l","e","s"," ","b","y"," ","L","a","n","g","u","a",
      "g","e",":","\n">>

FB_Checks ==
    <<"\n","\n","#","#","#"," ","L","a","n","g","u","a","g","e","-","S","p",
      "e","c","i","f","i","c"," ","C","h","e","c","k","s",":","\n">>

FB_Tail ==
    <<"\n","\n","#","#","#"," ","R","e","c","o","m","m","e","n","d","a","t",
      "i","o","n","s",":","\n","-"," ","C","o","d","e"," ","f","o","l","l",
      "o","w","s"," ","e","s","t","a","b","l","i","s","h","e","d"," ","p",
      "a","t","t","e","r","n","s"," ","f","o","r"," ","a","l","l"," ","l",
      "a","n","g","u","a","g","e","s","\n","-"," ","A","l","l"," ","a","u",
      "t","o","m","a","t","e","d"," ","c","h","e","c","k","s"," ","p","a",
      "s","s","e","d"," ","a","c","r","o","s","s"," ","l","a","n","g","u",
      "a","g","e","s","\n","-"," ","R","e","a","d","y"," ","f","o","r"," ",
      "h","u","m","a","n"," ","r","e","v","i","e","w","\n","\n","*","N","o",
      "t","e",":"," ","A","I","-","p","o","w","e","r","e","d"," ","a","n",
      "a","l","y","s","i","s"," ","i","s"," ","c","u","r","r","e","n","t",
      "l","y"," ","u","n","a","v","a","i","l","a","b","l","e","."," ","T",
      "h","i","s"," ","i","s"," ","a"," ","c","o","m","p","r","e","h","e",
      "n","s","i","v","e"," ","f","a","l","l","b","a","c","k"," ","r","e",
      "v","i","e","w"," ","b","a","s","e","d"," ","o","n"," ","a","u","t",
      "o","m","a","t","e","d"," ","t","o","o","l","i","n","g"," ","r","e",
      "s","u","l","t","s",".","*","\n"," "," ">>

Lang_JS ==
    <<"J","a","v","a","S","c","r","i","p","t","/","T","y","p","e","S","c",
      "r","i","p","t">>

Lang_Python ==
    <<"P","y","t","h","o","n">>

Lang_Java ==
    <<"J","a","v","a">>

Lang_Cpp ==
    <<"C","+","+">>

Lang_SQL ==
    <<"S","Q","L">>

Check_JS ==
    <<"-"," ","*","*","J","a","v","a","S","c","r","i","p","t","/","T","y",
      "p","e","S","c","r","i","p","t","*","*",":"," ","E","S","L","i","n",
      "t"," ","+"," ","P","r","e","t","t","i","e","r"," ","+"," ","T","y",
      "p","e","S","c","r","i","p","t"," ","c","o","m","p","i","l","e","r",
      " ","c","h","e","c","k","s"," ","p","a","s","s","e","d">>

Check_Python ==
    <<"-"," ","*","*","P","y","t","h","o","n","*","*",":"," ","F","l","a",
      "k","e","8"," ","+"," ","B","l","a","c","k"," ","+"," ","i","s","o",
      "r","t"," ","+"," ","M","y","P","y"," ","+"," ","B","a","n","d","i",
      "t"," ","s","e","c","u","r","i","t","y"," ","c","h","e","c","k","s",
      " ","p","a","s","s","e","d">>

Check_Java ==
    <<"-"," ","*","*","J","a","v","a","*","*",":"," ","C","h","e","c","k",
      "s","t","y","l","e"," ","+"," ","G","o","o","g","l","e"," ","J","a",
      "v","a"," ","F","o","r","m","a","t"," ","c","h","e","c","k","s"," ",
      "p","a","s","s","e","d">>

Check_Cpp ==
    <<"-"," ","*","*","C","+","+","*","*",":"," ","C","l","a","n","g","-",
      "T","i","d","y"," ","+"," ","C","l","a","n","g","-","F","o","r","m",
      "a","t"," ","c","h","e","c","k","s"," ","p","a","s","s","e","d">>

Check_SQL ==
    <<"-"," ","*","*","S","Q","L","*","*",":"," ","S","Q","L","F","l","u",
      "f","f"," ","l","i","n","t","i","n","g"," ","a","n","d"," ","f","o",
      "r","m","a","t","t","i","n","g"," ","c","h","e","c","k","s"," ","p",
      "a","s","s","e","d">>

\* String.prototype.endsWith(suffix)
EndsWith(s, suffix) ==
    /\ Len(s) >= Len(suffix)
    /\ SubSeq(s, Len(s) - Len(suffix) + 1, Len(s)) = suffix

\* String(n) for an integer n >= 0
RECURSIVE ToDecimal(_)
ToDecimal(n) ==
    IF n < 10 THEN <<Digits[n + 1]>>
    ELSE Append(ToDecimal(n \div 10), Digits[(n % 10) + 1])

\* the language a file name is classified as, by the if/else-if chain shared
\* by detectLanguages and formatFilesByLanguage; <<>> for no language
LanguageOf(file) ==
    IF \/ EndsWith(file, <<".", "j", "s">>)
       \/ EndsWith(file, <<".", "j", "s", "x">>)
       \/ EndsWith(file, <<".", "t", "s">>)
       \/ EndsWith(file, <<".", "t", "s", "x">>) THEN Lang_JS
    ELSE IF EndsWith(file, <<".", "p", "y">>) THEN Lang_Python
    ELSE IF EndsWith(file, <<".", "j", "a", "v", "a">>) THEN Lang_Java
    ELSE IF \/ EndsWith(file, <<".", "c", "p", "p">>)
            \/ EndsWith(file, <<".", "h", "p", "p">>)
            \/ EndsWith(file, <<".", "c">>)
            \/ EndsWith(file, <<".", "h">>) THEN Lang_Cpp
    ELSE IF EndsWith(file, <<".", "s", "q", "l">>) THEN Lang_SQL
    ELSE <<>>

\* detectLanguages: the languages of the files, each once, in the order of
\* first occurrence (insertion order of the Set)
RECURSIVE DetectLoop(_, _, _)
DetectLoop(files, i, languages) ==
    IF i > Len(files) THEN languages
    ELSE LET lang == LanguageOf(files[i])
         IN IF lang = <<>> \/ \E k \in 1..Len(languages) : languages[k] = lang
            THEN DetectLoop(files, i + 1, languages)
            ELSE DetectLoop(files, i + 1, Append(languages, lang))

detectLanguages(files) == DetectLoop(files, 1, <<>>)

\* the backquote character, which a TLA+ string cannot contain
Backquote == "bq"

\* formatFilesByLanguage: for each language, in insertion order of byLang,
\* a heading and the bulleted files of that language
FilesOf(files, lang) ==
    LET OfLang(f) == LanguageOf(f) = lang
    IN SelectSeq(files, OfLang)

RECURSIVE FormatLoop(_, _, _)
FormatLoop(files, langs, k) ==
    IF k > Len(langs) THEN <<>>
    ELSE LET langFiles == FilesOf(files, langs[k])
             bullets == [f \in 1..Len(langFiles) |->
                            <<"-", " ", Backquote>> \o langFiles[f] \o <<Backquote>>]
         IN <<NL, "*", "*">> \o langs[k] \o <<":", "*", "*", NL>>
            \o Join(bullets, <<NL>>) \o <<NL>>
            \o FormatLoop(files, langs, k + 1)

formatFilesByLanguage(files) == FormatLoop(files, detectLanguages(files), 1)

formatFilesByLanguageFallback(files) == formatFilesByLanguage(files)

\* generateLanguageSpecificFallback: one fixed line per known language
CheckOf(lang) ==
    IF lang = Lang_JS THEN Check_JS
    ELSE IF lang = Lang_Python THEN Check_Python
    ELSE IF lang = Lang_Java THEN Check_Java
    ELSE IF lang = Lang_Cpp THEN Check_Cpp
    ELSE Check_SQL

generateLanguageSpecificFallback(languages) ==
    Join([k \in 1..Len(languages) |-> CheckOf(languages[k])], <<NL>>)

generateFallbackReview(request) ==
    LET languages == detectLanguages(request.changed_files)
    IN FB_Head \o TemplateText(Field(request, "pr_title"))
       \o FB_Author \o TemplateText(Field(request, "pr_author"))
       \o FB_Files \o ToDecimal(Len(request.changed_files))
       \o FB_Languages \o Join(languages, <<",", " ">>)
       \o FB_Analysis \o formatFilesByLanguageFallback(request.changed_files)
       \o FB_Checks \o generateLanguageSpecificFallback(languages)
       \o FB_Tail

(***************************************************************************)
(* extractSuggestions, extractIssues, extractScore (part_003:1010-1082).   *)
(***************************************************************************)
UpperCase == <<"A","B","C","D","E","F","G","H","I","J","K","L","M","N","O","P","Q","R","S","T","U","V","W","X","Y","Z">>

LowerCase == <<"a","b","c","d","e","f","g","h","i","j","k","l","m","n","o","p","q","r","s","t","u","v","w","x","y","z">>

\* String.prototype.toLowerCase(), on the letters A-Z
ToLowerChar(c) ==
    IF c \in {UpperCase[k] : k \in 1..26}
    THEN LowerCase[CHOOSE k \in 1..26 : UpperCase[k] = c]
    ELSE c

ToLower(s) == [k \in 1..Len(s) |-> ToLowerChar(s[k])]

\* String.prototype.includes(sub)
Includes(s, sub) == \E k \in 1..(Len(s) - Len(sub) + 1) : LitAt(s, k, sub)

\* the keyword tests of extractSuggestions and of extractIssues
K_Suggestion == <<"s","u","g","g","e","s","t","i","o","n">>

K_Recommend == <<"r","e","c","o","m","m","e","n","d">>

K_Consider == <<"c","o","n","s","i","d","e","r">>

K_Should == <<"s","h","o","u","l","d">>

K_Issue == <<"i","s","s","u","e">>

K_Problem == <<"p","r","o","b","l","e","m">>

K_Error == <<"e","r","r","o","r">>

K_Bug == <<"b","u","g">>

K_Concern == <<"c","o","n","c","e","r","n">>

SuggestionKeywords == {K_Suggestion, K_Recommend, K_Consider, K_Should}

IssueKeywords == {K_Issue, K_Problem, K_Error, K_Bug, K_Concern}

\* the entry pushed for a line that has a keyword: the line without a
\* leading '- ' or '* '
WithoutBullet(trimmedLine) ==
    IF StartsWith(trimmedLine, <<"-", " ">>) \/ StartsWith(trimmedLine, <<"*", " ">>)
    THEN Substring(trimmedLine, 2)
    ELSE trimmedLine

\* the loop shared by extractSuggestions and extractIssues
RECURSIVE KeywordLines(_, _, _)
KeywordLines(lines, k, keywords) ==
    IF k > Len(lines) THEN <<>>
    ELSE LET trimmedLine == Trim(lines[k])
             lower == ToLower(trimmedLine)
         IN (IF \E w \in keywords : Includes(lower, w)
             THEN <<WithoutBullet(trimmedLine)>>
             ELSE <<>>) \o KeywordLines(lines, k + 1, keywords)

MaxListed == 10

\* Array.prototype.slice(0, n)
Slice0_uncapped(seq, n) == seq

Slice0(seq, n) == IF Len(seq) <= n THEN seq ELSE SubSeq(seq, 1, n)

extractSuggestions(text) ==
    Slice0(KeywordLines(Split(text, NL), 1, SuggestionKeywords), MaxListed)

extractIssues(text) ==
    Slice0(KeywordLines(Split(text, NL), 1, IssueKeywords), MaxListed)

\* the literal lit occurs in s at index k, letter case ignored (flag i)
LitAtCI(s, k, lit) ==
    /\ k + Len(lit) - 1 <= Len(s)
    /\ ToLowerChar(s[k]) = lit[1]
    /\ ToLower(SubSeq(s, k, k + Len(lit) - 1)) = lit

IsColonOrSpace(c) == c = ":" \/ IsSpace(c)

\* index of the last character of the longest run of white space that
\* starts at index k (k - 1 when s[k] is none): what a greedy \s* consumes
SpacesEnd(s, k) ==
    IF k > Len(s) \/ ~IsSpace(s[k]) THEN k - 1
    ELSE LET stop == {m \in k..(Len(s) + 1) : m = Len(s) + 1 \/ ~IsSpace(s[m])}
         IN (CHOOSE m \in stop : \A n \in stop : m <= n) - 1

\* the same for a run of colons and white space: a greedy [:\s]*
ColonSpacesEnd(s, k) ==
    IF k > Len(s) \/ ~IsColonOrSpace(s[k]) THEN k - 1
    ELSE LET stop == {m \in k..(Len(s) + 1) : m = Len(s) + 1 \/ ~IsColonOrSpace(s[m])}
         IN (CHOOSE m \in stop : \A n \in stop : m <= n) - 1

\* /word[:\s]+(\d+)/i tried at index k: the capture, or <<>> for no match
WordThenNumberAt(s, k, word) ==
    IF ~LitAtCI(s, k, word) THEN <<>>
    ELSE LET a == k + Len(word)
             e1 == ColonSpacesEnd(s, a)
             e2 == DigitsEnd(s, e1 + 1)
         IN IF e1 >= a /\ e2 >= e1 + 1 THEN SubSeq(s, e1 + 1, e2) ELSE <<>>

\* /(\d+)\/10/i tried at index k
NumberSlashTenAt(s, k) ==
    LET e == DigitsEnd(s, k)
    IN IF e >= k /\ LitAt(s, e + 1, <<"/", "1", "0">>) THEN SubSeq(s, k, e) ELSE <<>>

\* /(\d+)\s*out\s*of\s*10/i tried at index k
NumberOutOfTenAt(s, k) ==
    LET e == DigitsEnd(s, k)
        o == SpacesEnd(s, e + 1) + 1
        f == SpacesEnd(s, o + 3) + 1
        n == SpacesEnd(s, f + 2) + 1
    IN IF /\ e >= k
          /\ LitAtCI(s, o, <<"o", "u", "t">>)
          /\ LitAtCI(s, f, <<"o", "f">>)
          /\ LitAt(s, n, <<"1", "0">>)
       THEN SubSeq(s, k, e) ELSE <<>>

\* text.match(pattern) for the five scorePatterns: the capture of the
\* leftmost match, or <<>> when the pattern does not match
PatternCapture(text, p) ==
    LET At(k) == IF p = 1 THEN WordThenNumberAt(text, k, <<"s", "c", "o", "r", "e">>)
                 ELSE IF p = 2 THEN WordThenNumberAt(text, k, <<"r", "a", "t", "i", "n", "g">>)
                 ELSE IF p = 3 THEN NumberSlashTenAt(text, k)
                 ELSE IF p = 4 THEN NumberOutOfTenAt(text, k)
                 ELSE WordThenNumberAt(text, k, <<"o", "v", "e", "r", "a", "l", "l">>)
        hits == {k \in 1..Len(text) : At(k) # <<>>}
    IN IF hits = {} THEN <<>> ELSE At(CHOOSE k \in hits : \A m \in hits : k <= m)

DefaultScore == 8

\* the loop over scorePatterns, from pattern p on
RECURSIVE ScoreLoop(_, _)
ScoreLoop(text, p) ==
    IF p > 5 THEN DefaultScore
    ELSE LET cap == PatternCapture(text, p)
             score == DecimalValue(cap)
         IN IF cap # <<>> /\ score >= 1 /\ score <= 10 THEN score
            ELSE ScoreLoop(text, p + 1)

extractScore_unchecked(text) ==
    LET hits == {p \in 1..5 : PatternCapture(text, p) # <<>>}
    IN IF hits = {} THEN DefaultScore
       ELSE DecimalValue(PatternCapture(text, CHOOSE p \in hits : \A q \in hits : p <= q))

extractScore(text) == ScoreLoop(text, 1)

(***************************************************************************)
(* Values of the variables a specification does not use.                   *)
(***************************************************************************)
NoChunkArgs == [diffContent |-> <<>>, maxChunkSize |-> 0]

NoResolveArgs == [diffContent |-> <<>>, lineNumber |-> NaN]

NoParseArgs == [response |-> <<>>, chunkIndex |-> 0]

NoEnv == [anthropic |-> FALSE, openai |-> FALSE, AI_PROVIDER |-> ""]

NoReview ==
    [review_comment |-> <<>>, line_comments |-> <<>>, suggestions |-> <<>>,
     issues |-> <<>>, overall_score |-> 0]

NoResponse == [status |-> 0, body |-> NoReview]

NoAnchor == [filePath |-> null, position |-> -1]

NoExtractArgs == [text |-> <<>>]

NoExtracted == [suggestions |-> <<>>, issues |-> <<>>, overall_score |-> 0]

\* no second invocation
NoSuspended ==
    [pc |-> "none", requestId |-> 0, chunkIdx |-> 0, lineComments |-> <<>>,
     reviewData |-> NoReview, commentIdx |-> 0, anchor |-> NoAnchor, log |-> <<>>,
     httpResponse |-> NoResponse]

\* no request is being handled
ReviewIdle ==
    /\ env = NoEnv
    /\ requestId = 0
    /\ chunkIdx = 0
    /\ lineComments = <<>>
    /\ reviewData = NoReview
    /\ commentIdx = 0
    /\ anchor = NoAnchor
    /\ log = <<>>
    /\ httpResponse = NoResponse
    /\ suspended = NoSuspended

PureIdle ==
    /\ chunkArgs = NoChunkArgs
    /\ chunks = <<>>
    /\ resolveArgs = NoResolveArgs
    /\ resolved = NoMatch
    /\ parseArgs = NoParseArgs
    /\ parsed = <<>>
    /\ extractArgs = NoExtractArgs
    /\ extracted = NoExtracted
    /\ suspended = NoSuspended

(***************************************************************************)
(* Driver of chunkDiffContent: any diff text over a two-letter alphabet    *)
(* (a letter and the newline) and any positive maxChunkSize.               *)
(***************************************************************************)
ChunkAlphabet == {"a", NL}

ChunkDiffs == UNION {[1..k -> ChunkAlphabet] : k \in 0..MaxDiffLen}

InitChunk ==
    /\ pc = "chunk_call"
    /\ chunkArgs \in [diffContent : ChunkDiffs, maxChunkSize : 1..MaxChunkBound]
    /\ chunks = <<>>
    /\ resolveArgs = NoResolveArgs
    /\ resolved = NoMatch
    /\ parseArgs = NoParseArgs
    /\ parsed = <<>>
    /\ extractArgs = NoExtractArgs
    /\ extracted = NoExtracted
    /\ ReviewIdle

CallChunkDiffContent ==
    /\ pc = "chunk_call"
    /\ chunks' = chunkDiffContent(chunkArgs.diffContent, chunkArgs.maxChunkSize)
    /\ pc' = "chunk_done"
    /\ UNCHANGED <<chunkArgs, resolveArgs, resolved, parseArgs, parsed, extractArgs, extracted,
                   suspended, reviewVars>>

NextChunk == CallChunkDiffContent

SpecChunk == InitChunk /\ [][NextChunk]_vars

(***************************************************************************)
(* Driver of findFileAndPositionForLine: any diff text made of at most     *)
(* MaxDiffLines lines taken from the lines below, two longer diffs, and    *)
(* any line number.                                                        *)
(***************************************************************************)
L_DiffGit == <<"d","i","f","f"," ","-","-","g","i","t"," ","a","/","a",".","t","x","t"," ","b","/","b",".","t","x","t">>   \* "diff --git a/a.txt b/b.txt"

L_Hunk1 == <<"@","@"," ","-","1",",","2"," ","+","1",",","3"," ","@","@">>   \* "@@ -1,2 +1,3 @@"

L_Hunk3 == <<"@","@"," ","-","3"," ","+","3"," ","@","@">>   \* "@@ -3 +3 @@"

L_Added == <<"+","x">>   \* "+x"

L_Context == <<" ","y">>   \* " y"

L_Removed == <<"-","z">>   \* "-z"

\* one file a.txt -> b.txt, one hunk: a context, an added and a context line
ExampleDiff == Join(<<L_DiffGit, L_Hunk1, L_Context, L_Added, L_Context>>, <<NL>>)

\* one file with two hunks, an added line in each
TwoHunkDiff == Join(<<L_DiffGit, L_Hunk1, L_Added, L_Hunk3, L_Added>>, <<NL>>)

L_DiffGit2 == <<"d","i","f","f"," ","-","-","g","i","t"," ","a","/","c",".","t","x","t"," ","b","/","d",".","t","x","t">>   \* "diff --git a/c.txt b/d.txt"

L_DiffGitSpaced == <<"d","i","f","f"," ","-","-","g","i","t"," ","a","/","m","y"," ","f","i","l","e",".","t","x","t"," ","b","/","m","y"," ","f","i","l","e",".","t","x","t">>   \* "diff --git a/my file.txt b/my file.txt"

\* two files, an added line at new-file line 1 in each
TwoFileDiff == Join(<<L_DiffGit, L_Hunk1, L_Added, L_DiffGit2, L_Hunk1, L_Added>>, <<NL>>)

\* one file whose name has a space, as git prints it (unquoted)
SpacedPathDiff == Join(<<L_DiffGitSpaced, L_Hunk1, L_Added>>, <<NL>>)

L_DiffGitBare == <<"d","i","f","f"," ","-","-","g","i","t"," ","a"," ","b">>   \* "diff --git a b"

\* a header whose fourth part is too short to hold a path: currentFile is ''
EmptyPathDiff == Join(<<L_DiffGitBare, L_Hunk1, L_Added>>, <<NL>>)

DiffLinePool == {L_DiffGit, L_Hunk1, L_Hunk3, L_Added, L_Context, L_Removed}

ResolveDiffs ==
    {Join(ls, <<NL>>) : ls \in UNION {[1..k -> DiffLinePool] : k \in 0..MaxDiffLines}}
        \cup {ExampleDiff, TwoHunkDiff, TwoFileDiff, SpacedPathDiff, EmptyPathDiff}

LineNumbers == {NaN} \cup {Num(n) : n \in 1..MaxLineNo}

InitResolve ==
    /\ pc = "resolve_call"
    /\ resolveArgs \in [diffContent : ResolveDiffs, lineNumber : LineNumbers]
    /\ resolved = NoMatch
    /\ chunkArgs = NoChunkArgs
    /\ chunks = <<>>
    /\ parseArgs = NoParseArgs
    /\ parsed = <<>>
    /\ extractArgs = NoExtractArgs
    /\ extracted = NoExtracted
    /\ ReviewIdle

CallFindFileAndPositionForLine ==
    /\ pc = "resolve_call"
    /\ resolved' = findFileAndPositionForLine(resolveArgs.diffContent,
                                              resolveArgs.lineNumber)
    /\ pc' = "resolve_done"
    /\ UNCHANGED <<chunkArgs, chunks, resolveArgs, parseArgs, parsed, extractArgs, extracted,
                   suspended, reviewVars>>

NextResolve == CallFindFileAndPositionForLine

SpecResolve == InitResolve /\ [][NextResolve]_vars

(***************************************************************************)
(* Driver of parseLineComments: any response text made of at most          *)
(* MaxRespLines lines taken from the lines below, and any chunk index.     *)
(***************************************************************************)
R_Fix == <<"L","I","N","E","_","C","O","M","M","E","N","T",":"," ","4","2",":"," ","f","i","x"," ","t","h","i","s">>   \* "LINE_COMMENT: 42: fix this"

R_Abc == <<"L","I","N","E","_","C","O","M","M","E","N","T",":"," ","a","b","c",":"," ","t","e","x","t">>   \* "LINE_COMMENT: abc: text"

R_Colons == <<"L","I","N","E","_","C","O","M","M","E","N","T",":"," ","5",":"," ","u","s","e"," ","a",":"," ","b">>   \* "LINE_COMMENT: 5: use a: b"

R_Padded == <<" "," ","L","I","N","E","_","C","O","M","M","E","N","T",":"," ","7",":"," ","x"," ">>   \* "  LINE_COMMENT: 7: x "

R_Prose == <<"l","o","o","k","s"," ","g","o","o","d">>   \* "looks good"

R_Zero == <<"L","I","N","E","_","C","O","M","M","E","N","T",":"," ","0",":"," ","x">>   \* "LINE_COMMENT: 0: x"

R_Negative == <<"L","I","N","E","_","C","O","M","M","E","N","T",":"," ","-","3",":"," ","x">>   \* "LINE_COMMENT: -3: x"

R_NoText == <<"L","I","N","E","_","C","O","M","M","E","N","T",":"," ","5",":">>   \* "LINE_COMMENT: 5:"

R_NoNumber == <<"L","I","N","E","_","C","O","M","M","E","N","T",":"," ","n","o","t","e">>   \* "LINE_COMMENT: note"

ResponseLinePool ==
    {R_Fix, R_Abc, R_Colons, R_Padded, R_Prose, R_Zero, R_Negative, R_NoText, R_NoNumber}

ParseResponses ==
    {Join(ls, <<NL>>) : ls \in UNION {[1..k -> ResponseLinePool] : k \in 0..MaxRespLines}}

InitParse ==
    /\ pc = "parse_call"
    /\ parseArgs \in [response : ParseResponses, chunkIndex : 0..MaxChunkIndex]
    /\ parsed = <<>>
    /\ extractArgs = NoExtractArgs
    /\ extracted = NoExtracted
    /\ chunkArgs = NoChunkArgs
    /\ chunks = <<>>
    /\ resolveArgs = NoResolveArgs
    /\ resolved = NoMatch
    /\ ReviewIdle

CallParseLineComments ==
    /\ pc = "parse_call"
    /\ parsed' = parseLineComments(parseArgs.response, parseArgs.chunkIndex)
    /\ pc' = "parse_done"
    /\ UNCHANGED <<chunkArgs, chunks, resolveArgs, resolved, parseArgs, extractArgs, extracted,
                   suspended, reviewVars>>

NextParse == CallParseLineComments

SpecParse == InitParse /\ [][NextParse]_vars

(***************************************************************************)
(* Driver of extractSuggestions, extractIssues and extractScore, applied   *)
(* as generateAIReview applies them to overallComment (part_003:625-631):  *)
(* any text of up to MaxTextLines lines from a pool, and texts with        *)
(* MaxListed and with CapLines keyword lines.                              *)
(***************************************************************************)
X_Score11 == <<"s","c","o","r","e",":"," ","1","1">>   \* "score: 11"

X_Score5 == <<"s","c","o","r","e",":"," ","5">>   \* "score: 5"

X_SevenOfTen == <<"7","/","1","0">>   \* "7/10"

X_Rating0 == <<"r","a","t","i","n","g",":"," ","0">>   \* "rating: 0"

X_Overall == <<"O","v","e","r","a","l","l",":"," ","7","/","1","0">>   \* "Overall: 7/10"

X_NoScore == <<"n","o"," ","s","c","o","r","e"," ","m","e","n","t","i","o","n","e","d">>   \* "no score mentioned"

X_Hundred == <<"1","0","0","/","1","0">>   \* "100/10"

X_NineOutOf == <<"9"," ","o","u","t"," ","o","f"," ","1","0">>   \* "9 out of 10"

X_ShouldFix == <<"-"," ","s","h","o","u","l","d"," ","f","i","x"," ","t","h","e"," ","b","u","g">>   \* "- should fix the bug"

X_Consider == <<"*"," ","C","o","n","s","i","d","e","r"," ","t","h","i","s">>   \* "* Consider this"

X_Error == <<" "," ","P","o","s","s","i","b","l","e"," ","E","R","R","O","R"," ","h","e","r","e"," ">>   \* "  Possible ERROR here "

ExtractLinePool ==
    {X_Score11, X_Score5, X_SevenOfTen, X_Rating0, X_Overall, X_NoScore, X_Hundred,
     X_NineOutOf, X_ShouldFix, X_Consider, X_Error}

\* the i-th line of a long text: '- should bug ' and the i-th letter
KeywordLine(i) ==
    <<"-"," ","s","h","o","u","l","d"," ","b","u","g"," ">> \o <<LowerCase[i]>>

ExtractTexts ==
    {Join(ls, <<NL>>) : ls \in UNION {[1..k -> ExtractLinePool] : k \in 0..MaxTextLines}}
        \cup {Join([i \in 1..n |-> KeywordLine(i)], <<NL>>) : n \in {MaxListed, CapLines}}

InitExtract ==
    /\ pc = "extract_call"
    /\ extractArgs \in [text : ExtractTexts]
    /\ extracted = NoExtracted
    /\ chunkArgs = NoChunkArgs
    /\ chunks = <<>>
    /\ resolveArgs = NoResolveArgs
    /\ resolved = NoMatch
    /\ parseArgs = NoParseArgs
    /\ parsed = <<>>
    /\ ReviewIdle

CallExtract ==
    /\ pc = "extract_call"
    /\ extracted' = [suggestions |-> extractSuggestions(extractArgs.text),
                     issues |-> extractIssues(extractArgs.text),
                     overall_score |-> extractScore(extractArgs.text)]
    /\ pc' = "extract_done"
    /\ UNCHANGED <<chunkArgs, chunks, resolveArgs, resolved, parseArgs, parsed, extractArgs,
                   suspended, reviewVars>>

NextExtract == CallExtract

SpecExtract == InitExtract /\ [][NextExtract]_vars

(***************************************************************************)
(* The /analyze-pr handler and generateAIReview (part_003:534-687,         *)
(* 817-891), one request at a time.  The AI provider and GitHub are the    *)
(* environment: each request to them succeeds with some answer or throws.  *)
(***************************************************************************)
ErrAnthropic == <<"E","r","r","o","r"," ","c","a","l","l","i","n","g"," ","A","n","t","h","r","o","p","i","c"," ","A","P","I">>   \* 'Error calling Anthropic API'

ErrOpenAI == <<"E","r","r","o","r"," ","c","a","l","l","i","n","g"," ","O","p","e","n","A","I"," ","A","P","I">>   \* 'Error calling OpenAI API'

NoAnthropic == <<"A","n","t","h","r","o","p","i","c"," ","c","l","i","e","n","t"," ","n","o","t"," ","i","n","i","t","i","a","l","i","z","e","d">>   \* 'Anthropic client not initialized'

\* the texts the AI provider may answer with
T_Fix1 == <<"L","I","N","E","_","C","O","M","M","E","N","T",":"," ","1",":"," ","f","i","x"," ","t","h","i","s">>   \* "LINE_COMMENT: 1: fix this"

T_Bug9 == <<"L","I","N","E","_","C","O","M","M","E","N","T",":"," ","9",":"," ","b","u","g"," ","h","e","r","e">>   \* "LINE_COMMENT: 9: bug here"

T_Score == <<"O","v","e","r","a","l","l",":"," ","7","/","1","0">>   \* "Overall: 7/10"

T_Two == <<"L","I","N","E","_","C","O","M","M","E","N","T",":"," ","3",":"," ","b","\n","L","I","N","E","_","C","O","M","M","E","N","T",":"," ","1",":"," ","a">>   \* "LINE_COMMENT: 3: b\nLINE_COMMENT: 1: a"

AITexts == {T_Fix1, T_Bug9, T_Score, T_Two}

\* the texts enumerated while two invocations of the handler are in flight
ConcurrentTexts == {T_Fix1, T_Score}

\* what one request to the provider does: it answers with a text or throws
AIOutcomes ==
    {[ok |-> TRUE, text |-> x] :
        x \in IF suspended.pc = "none" THEN AITexts ELSE ConcurrentTexts}
        \cup {[ok |-> FALSE, text |-> <<>>]}

\* the diffs of the requests: the example diff, and a diff over the default
\* chunk size whose second hunk adds new-file line 3
Repeat(c, n) == [k \in 1..n |-> c]

ShortDiff == ExampleDiff

LongDiff ==
    Join(<<L_DiffGit, L_Hunk1, <<"+">> \o Repeat("x", LongLineLen),
           <<" ">> \o Repeat("y", LongLineLen), L_Hunk3, L_Added>>, <<NL>>)

DiffTable == <<ShortDiff, LongDiff>>

\* the request bodies (PRAnalysisRequest), with and without a github_token
BaseRequest ==
    [pr_number |-> 7,
     pr_title |-> <<"F", "i", "x">>,
     pr_body |-> <<"b", "o", "d", "y">>,
     pr_author |-> <<"b", "o", "b">>,
     changed_files |-> << <<"a", ".", "p", "y">> >>,
     diff_content |-> <<>>,
     repository |-> <<"o", "/", "r">>,
     github_token |-> <<>>]

\* the properties of PRAnalysisRequest, in the order of the interface
RequestFields ==
    <<"pr_number", "pr_title", "pr_body", "pr_author", "changed_files", "diff_content",
      "repository", "github_token">>

\* the body has every property of the interface
WellFormed(request) ==
    \A k \in 1..Len(RequestFields) : RequestFields[k] \in DOMAIN request

\* a title that reads like a score
ScoreTitle == <<"3","/","1","0"," ","d","o","n","e">>   \* "3/10 done"

\* the body object without the property f
Without(object, f) == [g \in DOMAIN object \ {f} |-> object[g]]

\* the bodies with all properties: the short diff without and with a token,
\* the long diff, and one whose title reads like a score
WellFormedRequests ==
    <<[BaseRequest EXCEPT !.diff_content = ShortDiff],
      [BaseRequest EXCEPT !.diff_content = ShortDiff, !.github_token = <<"t">>],
      [BaseRequest EXCEPT !.diff_content = LongDiff],
      [BaseRequest EXCEPT !.diff_content = ShortDiff, !.pr_title = ScoreTitle]>>

\* the bodies that lack one property of the interface: express.json() does
\* not validate, the handler receives whatever object was sent
MalformedRequests ==
    [k \in 1..Len(RequestFields) |-> Without(WellFormedRequests[1], RequestFields[k])]

RequestTable == WellFormedRequests \o MalformedRequests

Request == RequestTable[requestId]

\* generateAIReview throws before its first await: detectLanguages iterates
\* over request.changed_files and chunkDiffContent reads
\* request.diff_content.length, a TypeError when the property is undefined
GenerateThrows(request) ==
    \/ "changed_files" \notin DOMAIN request
    \/ "diff_content" \notin DOMAIN request

\* const diffChunks = chunkDiffContent(request.diff_content)
ChunksOfRequest ==
    [r \in 1..Len(RequestTable) |->
        IF GenerateThrows(RequestTable[r]) THEN <<>>
        ELSE chunkDiffContent(RequestTable[r].diff_content, DefaultMaxChunkSize)]

diffChunks == ChunksOfRequest[requestId]

\* the server configurations: which clients exist and what AI_PROVIDER names
Envs == [anthropic : BOOLEAN, openai : BOOLEAN, AI_PROVIDER : {"anthropic", "openai", ""}]

\* anthropic && process.env.AI_PROVIDER === 'anthropic'
UseAnthropic == env.anthropic /\ env.AI_PROVIDER = "anthropic"

\* else: openai && process.env.AI_PROVIDER === 'openai'
UseOpenAI == ~UseAnthropic /\ env.openai /\ env.AI_PROVIDER = "openai"

\* callAnthropic: the value returned, given what messages.create did.  Both
\* the missing client and a thrown error become a returned string.
callAnthropic(client, outcome) ==
    IF ~client THEN NoAnthropic
    ELSE IF outcome.ok THEN outcome.text
    ELSE ErrAnthropic

\* callOpenAI after the chat.completions fallback: the value returned
callOpenAIChat(outcome) ==
    IF outcome.ok THEN outcome.text ELSE ErrOpenAI

\* the events of the history
AIEvent(api, idx, outcome) ==
    [api |-> api, idx |-> idx, ok |-> outcome.ok, text |-> outcome.text]

GitHubEvent(api, idx, ok) == [api |-> api, idx |-> idx, ok |-> ok]

SummaryIdx == -1

\* res.status(500).json({ error: 'Failed to analyze PR' })
ErrorBody ==
    [error |-> <<"F","a","i","l","e","d"," ","t","o"," ","a","n","a","l","y","z","e"," ","P","R">>]

InitReview ==
    /\ pc = "generate"
    /\ env \in Envs
    /\ requestId \in 1..Len(RequestTable)
    /\ chunkIdx = 0
    /\ lineComments = <<>>
    /\ reviewData = NoReview
    /\ commentIdx = 0
    /\ anchor = NoAnchor
    /\ log = <<>>
    /\ httpResponse = NoResponse
    /\ PureIdle

\* generateAIReview up to the loop: the diff is chunked, nothing collected;
\* an exception thrown there reaches the catch block of the handler
StartReview ==
    /\ pc = "generate"
    /\ chunkIdx' = 0
    /\ lineComments' = <<>>
    /\ pc' = IF GenerateThrows(Request) THEN "error"
             ELSE IF 0 < Len(diffChunks) THEN "chunk" ELSE "summary"
    /\ UNCHANGED <<pureVars, env, requestId, reviewData, commentIdx, anchor, log,
                   httpResponse>>

\* where the loop goes after chunk index idx of n chunks has been handled
AfterChunkPc_break(idx, n) == "summary"

AfterChunkPc(idx, n) == IF idx + 1 < n THEN "chunk" ELSE "summary"

\* the rest of the loop body once chunkResponse is known: parse, push, i++
FinishChunk_prepend(chunkResponse) ==
    /\ lineComments' = parseLineComments(chunkResponse, chunkIdx) \o lineComments
    /\ chunkIdx' = chunkIdx + 1
    /\ pc' = AfterChunkPc(chunkIdx, Len(diffChunks))

FinishChunk(chunkResponse) ==
    /\ lineComments' = lineComments \o parseLineComments(chunkResponse, chunkIdx)
    /\ chunkIdx' = chunkIdx + 1
    /\ pc' = AfterChunkPc(chunkIdx, Len(diffChunks))

ChunkAnthropic ==
    /\ pc = "chunk"
    /\ UseAnthropic
    /\ \E outcome \in AIOutcomes :
          /\ log' = Append(log, AIEvent("anthropic", chunkIdx, outcome))
          /\ FinishChunk(callAnthropic(env.anthropic, outcome))
    /\ UNCHANGED <<pureVars, env, requestId, reviewData, commentIdx, anchor, httpResponse>>

\* callOpenAI, the catch block of responses.create: the same prompt goes to
\* chat.completions.create, once; stage is where the prompt came from
ResponsesErrorPc_retry(stage) == stage

ResponsesErrorPc(stage) == IF stage = "chunk" THEN "chunk_chat" ELSE "summary_chat"

\* callOpenAI, first request: responses.create; an error leads to the
\* chat.completions request
ChunkOpenAIResponses ==
    /\ pc = "chunk"
    /\ UseOpenAI
    /\ \E outcome \in AIOutcomes :
          /\ log' = Append(log, AIEvent("responses", chunkIdx, outcome))
          /\ IF outcome.ok
             THEN FinishChunk(outcome.text)
             ELSE pc' = ResponsesErrorPc("chunk") /\ UNCHANGED <<lineComments, chunkIdx>>
    /\ UNCHANGED <<pureVars, env, requestId, reviewData, commentIdx, anchor, httpResponse>>

ChunkOpenAIChat ==
    /\ pc = "chunk_chat"
    /\ \E outcome \in AIOutcomes :
          /\ log' = Append(log, AIEvent("chat", chunkIdx, outcome))
          /\ FinishChunk(callOpenAIChat(outcome))
    /\ UNCHANGED <<pureVars, env, requestId, reviewData, commentIdx, anchor, httpResponse>>

\* no provider selected: chunkResponse = generateFallbackReview(request)
ChunkFallback ==
    /\ pc = "chunk"
    /\ ~UseAnthropic
    /\ ~UseOpenAI
    /\ FinishChunk(generateFallbackReview(Request))
    /\ UNCHANGED <<pureVars, env, requestId, reviewData, commentIdx, anchor, log,
                   httpResponse>>

\* the value generateAIReview returns once overallComment is known, and the
\* handler's choice between posting to GitHub and answering
FinishReview_alwaysPost(overallComment) ==
    /\ reviewData' = [review_comment |-> overallComment,
                      line_comments |-> lineComments,
                      suggestions |-> extractSuggestions(overallComment),
                      issues |-> extractIssues(overallComment),
                      overall_score |-> extractScore(overallComment)]
    /\ pc' = "post_summary"

FinishReview(overallComment) ==
    /\ reviewData' = [review_comment |-> overallComment,
                      line_comments |-> lineComments,
                      suggestions |-> extractSuggestions(overallComment),
                      issues |-> extractIssues(overallComment),
                      overall_score |-> extractScore(overallComment)]
    /\ pc' = IF Truthy(Field(Request, "github_token")) THEN "post_summary" ELSE "respond"

SummaryAnthropic ==
    /\ pc = "summary"
    /\ UseAnthropic
    /\ \E outcome \in AIOutcomes :
          /\ log' = Append(log, AIEvent("anthropic", SummaryIdx, outcome))
          /\ FinishReview(callAnthropic(env.anthropic, outcome))
    /\ UNCHANGED <<pureVars, env, requestId, chunkIdx, lineComments, commentIdx, anchor,
                   httpResponse>>

SummaryOpenAIResponses ==
    /\ pc = "summary"
    /\ UseOpenAI
    /\ \E outcome \in AIOutcomes :
          /\ log' = Append(log, AIEvent("responses", SummaryIdx, outcome))
          /\ IF outcome.ok
             THEN FinishReview(outcome.text)
             ELSE pc' = ResponsesErrorPc("summary") /\ UNCHANGED reviewData
    /\ UNCHANGED <<pureVars, env, requestId, chunkIdx, lineComments, commentIdx, anchor,
                   httpResponse>>

SummaryOpenAIChat ==
    /\ pc = "summary_chat"
    /\ \E outcome \in AIOutcomes :
          /\ log' = Append(log, AIEvent("chat", SummaryIdx, outcome))
          /\ FinishReview(callOpenAIChat(outcome))
    /\ UNCHANGED <<pureVars, env, requestId, chunkIdx, lineComments, commentIdx, anchor,
                   httpResponse>>

SummaryFallback ==
    /\ pc = "summary"
    /\ ~UseAnthropic
    /\ ~UseOpenAI
    /\ FinishReview(generateFallbackReview(Request))
    /\ UNCHANGED <<pureVars, env, requestId, chunkIdx, lineComments, commentIdx, anchor,
                   log, httpResponse>>

\* where the handler goes once the line comment with index idx is dealt with
AfterCommentPc_stop(idx) == "respond"

AfterCommentPc(idx) ==
    IF idx + 1 < Len(reviewData.line_comments) THEN "line_get_pr" ELSE "respond"

\* the catch block of postGitHubComment: the error is logged, the function
\* returns and the handler goes on at next
AfterCommentError(next) == next

\* the catch block of postLineComment, likewise
AfterLineCommentError_rethrown(next) == "error"

AfterLineCommentError(next) == next

\* postGitHubComment: the POST of the summary
PostGitHubComment ==
    /\ pc = "post_summary"
    /\ \E ok \in BOOLEAN :
          /\ log' = Append(log, GitHubEvent("issue_comment", -1, ok))
          /\ LET next == IF 0 < Len(reviewData.line_comments) THEN "line_get_pr"
                         ELSE "respond"
             IN pc' = IF ok THEN next ELSE AfterCommentError(next)
    /\ commentIdx' = 0
    /\ UNCHANGED <<pureVars, env, requestId, chunkIdx, lineComments, reviewData, anchor,
                   httpResponse>>

\* postLineComment, GET of the pull request; an error ends postLineComment
GetPullRequest ==
    /\ pc = "line_get_pr"
    /\ \E ok \in BOOLEAN :
          /\ log' = Append(log, GitHubEvent("get_pr", commentIdx, ok))
          /\ IF ok
             THEN pc' = "line_get_diff" /\ UNCHANGED commentIdx
             ELSE /\ pc' = AfterLineCommentError(AfterCommentPc(commentIdx))
                  /\ commentIdx' = commentIdx + 1
    /\ UNCHANGED <<pureVars, env, requestId, chunkIdx, lineComments, reviewData, anchor,
                   httpResponse>>

\* if (!filePath || position === -1) return
CannotAnchor_wrongSentinel(r) == r.filePath = <<>> \/ r.position = 0

CannotAnchor(r) == ~Truthy(r.filePath) \/ r.position = -1

\* postLineComment, GET of the diff and the resolution of the line number in
\* it; an error or an unresolved line ends postLineComment
GetDiff ==
    /\ pc = "line_get_diff"
    /\ \/ /\ log' = Append(log, GitHubEvent("get_diff", commentIdx, FALSE))
          /\ pc' = AfterLineCommentError(AfterCommentPc(commentIdx))
          /\ commentIdx' = commentIdx + 1
          /\ UNCHANGED anchor
       \/ \E d \in 1..Len(DiffTable) :
             LET r == findFileAndPositionForLine(DiffTable[d],
                          reviewData.line_comments[commentIdx + 1].line_number)
             IN /\ log' = Append(log, [api |-> "get_diff", idx |-> commentIdx, ok |-> TRUE,
                                       diff |-> d])
                /\ anchor' = [filePath |-> r.filePath, position |-> r.position]
                /\ IF CannotAnchor(r)
                   THEN pc' = AfterCommentPc(commentIdx) /\ commentIdx' = commentIdx + 1
                   ELSE pc' = "line_post" /\ UNCHANGED commentIdx
    /\ UNCHANGED <<pureVars, env, requestId, chunkIdx, lineComments, reviewData,
                   httpResponse>>

\* postLineComment, POST of the review comment (commentData)
PostReviewComment ==
    /\ pc = "line_post"
    /\ \E ok \in BOOLEAN :
          /\ log' = Append(log, [api |-> "review_comment", idx |-> commentIdx, ok |-> ok,
                                 path |-> anchor.filePath,
                                 line |-> reviewData.line_comments[commentIdx + 1].line_number,
                                 side |-> "RIGHT"])
          /\ pc' = IF ok THEN AfterCommentPc(commentIdx)
                   ELSE AfterLineCommentError(AfterCommentPc(commentIdx))
    /\ commentIdx' = commentIdx + 1
    /\ UNCHANGED <<pureVars, env, requestId, chunkIdx, lineComments, reviewData, anchor,
                   httpResponse>>

\* res.json(reviewData)
Respond ==
    /\ pc = "respond"
    /\ httpResponse' = [status |-> 200, body |-> reviewData]
    /\ pc' = "done"
    /\ UNCHANGED <<pureVars, env, requestId, chunkIdx, lineComments, reviewData, commentIdx,
                   anchor, log>>

\* the catch block of the handler
RespondError ==
    /\ pc = "error"
    /\ httpResponse' = [status |-> 500, body |-> ErrorBody]
    /\ pc' = "done"
    /\ UNCHANGED <<pureVars, env, requestId, chunkIdx, lineComments, reviewData, commentIdx,
                   anchor, log>>

NextReview ==
    \/ StartReview
    \/ ChunkAnthropic
    \/ ChunkOpenAIResponses
    \/ ChunkOpenAIChat
    \/ ChunkFallback
    \/ SummaryAnthropic
    \/ SummaryOpenAIResponses
    \/ SummaryOpenAIChat
    \/ SummaryFallback
    \/ PostGitHubComment
    \/ GetPullRequest
    \/ GetDiff
    \/ PostReviewComment
    \/ Respond
    \/ RespondError

SpecReview == InitReview /\ [][NextReview]_vars

(***************************************************************************)
(* Two requests in flight.  Node runs one invocation of the handler at a   *)
(* time and switches at an await; the variables declared inside the        *)
(* handler, generateAIReview and postLineComment belong to the invocation, *)
(* the clients and process.env to the module.  The history log is kept per *)
(* invocation: the external calls that invocation made.                    *)
(***************************************************************************)
\* the value of lineComments an invocation finds when it resumes: its own
\* (const lineComments is declared inside generateAIReview), whatever the
\* other invocation did meanwhile
lineCommentsOnResume_moduleLevel(own, current) == current

lineCommentsOnResume(own, current) == own

\* the local variables of the running invocation
RunningLocals ==
    [pc |-> pc, requestId |-> requestId, chunkIdx |-> chunkIdx,
     lineComments |-> lineComments, reviewData |-> reviewData, commentIdx |-> commentIdx,
     anchor |-> anchor, log |-> log, httpResponse |-> httpResponse]

\* the environments and the pairs of requests of the two invocations
ConcurrentEnvs ==
    {[anthropic |-> TRUE, openai |-> FALSE, AI_PROVIDER |-> "anthropic"],
     [anthropic |-> FALSE, openai |-> TRUE, AI_PROVIDER |-> "openai"],
     [anthropic |-> FALSE, openai |-> FALSE, AI_PROVIDER |-> ""]}

\* the short diff with a token, and the body without diff_content
FirstRequests == {2, Len(WellFormedRequests) + 6}

\* the short diff without a token
SecondRequests == {1}

InitConcurrent ==
    /\ pc = "generate"
    /\ env \in ConcurrentEnvs
    /\ requestId \in FirstRequests
    /\ chunkIdx = 0
    /\ lineComments = <<>>
    /\ reviewData = NoReview
    /\ commentIdx = 0
    /\ anchor = NoAnchor
    /\ log = <<>>
    /\ httpResponse = NoResponse
    /\ chunkArgs = NoChunkArgs
    /\ chunks = <<>>
    /\ resolveArgs = NoResolveArgs
    /\ resolved = NoMatch
    /\ parseArgs = NoParseArgs
    /\ parsed = <<>>
    /\ extractArgs = NoExtractArgs
    /\ extracted = NoExtracted
    /\ \E r \in SecondRequests :
          suspended = [NoSuspended EXCEPT !.pc = "generate", !.requestId = r]

\* the running invocation waits at its await (or has ended) and the other
\* one goes on
Switch ==
    /\ suspended.pc \notin {"none", "done"}
    /\ suspended' = RunningLocals
    /\ pc' = suspended.pc
    /\ requestId' = suspended.requestId
    /\ chunkIdx' = suspended.chunkIdx
    /\ lineComments' = lineCommentsOnResume(suspended.lineComments, lineComments)
    /\ reviewData' = suspended.reviewData
    /\ commentIdx' = suspended.commentIdx
    /\ anchor' = suspended.anchor
    /\ log' = suspended.log
    /\ httpResponse' = suspended.httpResponse
    /\ UNCHANGED <<chunkArgs, chunks, resolveArgs, resolved, parseArgs, parsed, extractArgs,
                   extracted, env>>

NextConcurrent ==
    \/ NextReview
    \/ Switch

SpecConcurrent == InitConcurrent /\ [][NextConcurrent]_vars

(***************************************************************************)
(* Claims about chunkDiffContent.                                          *)
(***************************************************************************)
\* the lines of one chunk
ChunkLines(c) == Split(c, NL)

\* C1: joining the chunks returned by chunkDiffContent(D, B) with a single
\* newline between consecutive chunks reproduces D exactly.
C1_JoinReproducesDiff ==
    pc = "chunk_done" => Join(chunks, <<NL>>) = chunkArgs.diffContent

\* C1 witness: a diff longer than the budget was cut into several chunks.
C1_Witness ==
    /\ pc = "chunk_done"
    /\ Len(chunkArgs.diffContent) > chunkArgs.maxChunkSize
    /\ Len(chunks) >= 3

\* C2: every chunk has length <= B or is exactly one line longer than B.
C2_ChunkWithinBudget ==
    pc = "chunk_done" =>
        \A k \in 1..Len(chunks) :
            \/ Len(chunks[k]) <= chunkArgs.maxChunkSize
            \/ /\ Len(ChunkLines(chunks[k])) = 1
               /\ Len(chunks[k]) > chunkArgs.maxChunkSize

\* C2 witness: an over-long line forms a chunk of its own among other chunks.
C2_Witness ==
    /\ pc = "chunk_done"
    /\ Len(chunks) >= 2
    /\ \E k \in 1..Len(chunks) :
          /\ Len(chunks[k]) > chunkArgs.maxChunkSize
          /\ Len(ChunkLines(chunks[k])) = 1

\* C17: a diff no longer than B, the empty diff included, comes back as
\* exactly one chunk, equal to the diff.
C17_ShortDiffIsOneChunk ==
    (pc = "chunk_done" /\ Len(chunkArgs.diffContent) <= chunkArgs.maxChunkSize) =>
        chunks = <<chunkArgs.diffContent>>

\* C17 witness: a diff of several lines whose length is exactly B came back
\* as one chunk.
C17_Witness ==
    /\ pc = "chunk_done"
    /\ Len(chunkArgs.diffContent) = chunkArgs.maxChunkSize
    /\ Len(ChunkLines(chunkArgs.diffContent)) >= 2
    /\ chunks = <<chunkArgs.diffContent>>

\* C18: zero chunks are returned only for the empty diff, and no chunk with
\* both a predecessor and a successor is the empty string.
C18_NoEmptyMiddleChunk ==
    pc = "chunk_done" =>
        /\ Len(chunks) = 0 => chunkArgs.diffContent = <<>>
        /\ \A k \in 2..(Len(chunks) - 1) : chunks[k] # <<>>

(***************************************************************************)
(* Claims about findFileAndPositionForLine.  The structure of the diff is  *)
(* restated here from the text of the diff, not from the loop.             *)
(***************************************************************************)
ResolveLines == Split(resolveArgs.diffContent, NL)

IsDiffGit(l) == StartsWith(l, DiffGitPrefix)

IsHunkHeader(l) == ~IsDiffGit(l) /\ StartsWith(l, HunkPrefix)

MaxOf(S) == IF S = {} THEN 0 ELSE CHOOSE x \in S : \A y \in S : y <= x

\* index of the 'diff --git' line that opens the file section of line j
SectionStart(lines, j) == MaxOf({i \in 1..(j - 1) : IsDiffGit(lines[i])})

\* index of the '@@' header of the hunk of line j, inside that file section
HunkStart(lines, j) ==
    MaxOf({i \in (SectionStart(lines, j) + 1)..(j - 1) : IsHunkHeader(lines[i])})

\* line j is a line of a hunk body of a file section
IsBodyLine(lines, j) ==
    /\ ~IsDiffGit(lines[j])
    /\ ~IsHunkHeader(lines[j])
    /\ SectionStart(lines, j) > 0
    /\ HunkStart(lines, j) > 0

\* the header of the file section of line j names a path: it has a fourth
\* part with something after its two-character prefix
SectionHasPath(lines, j) ==
    LET parts == Split(lines[SectionStart(lines, j)], " ")
    IN Len(parts) >= 4 /\ Len(parts[4]) > 2

IsAddedLine(lines, j) ==
    /\ IsBodyLine(lines, j)
    /\ StartsWith(lines[j], <<"+">>)
    /\ SectionHasPath(lines, j)

\* 1-based index of line j among all hunk-body lines of its file section
BodyIndex(lines, j) ==
    Cardinality({i \in (SectionStart(lines, j) + 1)..j : IsBodyLine(lines, i)})

\* new-file start c given by the header of the hunk of line j
HunkC(lines, j) == HunkHeaderMatch(lines[HunkStart(lines, j)]).start

\* 1-based count k of the added lines of the hunk of line j, up to line j
AddedK(lines, j) ==
    Cardinality({i \in (HunkStart(lines, j) + 1)..j : StartsWith(lines[i], <<"+">>)})

\* new-file line number of body line j: the hunk start plus the context and
\* added lines of the hunk that precede it
NewFileLine(lines, j) ==
    HunkC(lines, j) + Cardinality({i \in (HunkStart(lines, j) + 1)..(j - 1) :
                                     StartsWith(lines[i], <<"+">>) \/ StartsWith(lines[i], <<" ">>)})

\* C3: the position returned for a matched added line is the 1-based index of
\* that line among all hunk-body lines of the file's patch section (context
\* and removed lines count); in the example (context, added, context under
\* '@@ -1,2 +1,3 @@') line hunkStart + 1 resolves to b.txt, position 2.
C3_PositionCountsAllBodyLines ==
    pc = "resolve_done" =>
        /\ resolved.at > 0 =>
              resolved.position = BodyIndex(ResolveLines, resolved.at)
        /\ (resolveArgs.diffContent = ExampleDiff /\ resolveArgs.lineNumber = Num(2)) =>
              (resolved.filePath = <<"b", ".", "t", "x", "t">> /\ resolved.position = 2)

C5_MatchOnlyAddedLines ==
    (pc = "resolve_done" /\ resolved.at > 0) =>
        \E j \in 1..Len(ResolveLines) :
            /\ IsAddedLine(ResolveLines, j)
            /\ NewFileLine(ResolveLines, j) = resolveArgs.lineNumber.n

\* number of added lines of the file section of line j, up to line j
SectionAddedCount(lines, j) ==
    Cardinality({i \in (SectionStart(lines, j) + 1)..j : IsAddedLine(lines, i)})

\* C19: the position counter is reset only by a 'diff --git' line, not by a
\* later '@@' header of the same file section: the position returned for a
\* match continues the count over the earlier hunks of the file.
C19_PositionResetOnlyPerFile ==
    (pc = "resolve_done" /\ resolved.at > 0) =>
        resolved.position = SectionAddedCount(ResolveLines, resolved.at)

\* the b/ side of a 'diff --git a/X b/Y' header: what follows the last " b/"
BSide(header) ==
    LET at == {i \in 1..Len(header) : LitAt(header, i, <<" ", "b", "/">>)}
    IN IF at = {} THEN null ELSE Substring(header, MaxOf(at) + 2)

\* the added lines that compute to the target line number
TargetLines ==
    {j \in 1..Len(ResolveLines) :
        /\ IsAddedLine(ResolveLines, j)
        /\ ~resolveArgs.lineNumber.nan
        /\ HunkC(ResolveLines, j) + AddedK(ResolveLines, j) - 1 = resolveArgs.lineNumber.n}

\* C20: of the added lines that compute to the target, the earliest in the
\* diff text is returned, with the position counted at it and with the b/
\* side of the 'diff --git' header of its file section as file path.
C20_FirstMatchWithBSidePath ==
    (pc = "resolve_done" /\ TargetLines # {}) =>
        LET first == CHOOSE j \in TargetLines : \A k \in TargetLines : j <= k
        IN /\ resolved.at = first
           /\ resolved.position = AddedK(ResolveLines, first)
           /\ resolved.filePath = BSide(ResolveLines[SectionStart(ResolveLines, first)])

\* C30: the resolver returns either (null, -1) or a non-empty file path with
\* a position >= 1; never a path with position -1, null with a positive
\* position, or position 0.
C30_NullMinusOneOrPathAndPosition ==
    pc = "resolve_done" =>
        \/ resolved.filePath = null /\ resolved.position = -1
        \/ /\ resolved.filePath # null
           /\ resolved.filePath # <<>>
           /\ resolved.position >= 1

\* the added line of a file whose header gives the empty path is the target:
\* the result is (null, -1)
C30_Witness ==
    /\ pc = "resolve_done"
    /\ resolveArgs.diffContent = EmptyPathDiff
    /\ resolveArgs.lineNumber = Num(1)
    /\ resolved.filePath = null
    /\ resolved.position = -1

(***************************************************************************)
(* Claims about parseLineComments.                                         *)
(***************************************************************************)
ParseLines == Split(parseArgs.response, NL)

IsMarkerLine(l) == StartsWith(Trim(l), Marker)

ColonIdx(l) == SepIdx(Trim(l), ":")

\* index in Trim(l) of the second colon of a line that has two
SecondColon(l) ==
    CHOOSE i \in ColonIdx(l) : Cardinality({j \in ColonIdx(l) : j < i}) = 1

\* the text of Trim(l) after its second colon, trimmed
AfterSecondColon(l) == Trim(SubSeq(Trim(l), SecondColon(l) + 1, Len(Trim(l))))

\* the line-number field of a marker line: between its first two colons
NumberField(l) ==
    LET c1 == CHOOSE i \in ColonIdx(l) : \A j \in ColonIdx(l) : i <= j
    IN Trim(SubSeq(Trim(l), c1 + 1, SecondColon(l) - 1))

\* the field is an optionally signed decimal integer
IsIntegerText(f) ==
    LET d == IF Len(f) > 0 /\ f[1] \in {"+", "-"} THEN 2 ELSE 1
    IN d <= Len(f) /\ \A i \in d..Len(f) : IsDigit(f[i])

\* C6: for a marker line whose comment contains colons, the emitted comment
\* is the whole remainder after the second colon, trimmed.
C6_CommentKeepsColons ==
    pc = "parse_done" =>
        \A k \in 1..Len(ParseLines) :
            (IsMarkerLine(ParseLines[k]) /\ Cardinality(ColonIdx(ParseLines[k])) >= 3) =>
                \E e \in 1..Len(parsed) :
                    parsed[e].comment = AfterSecondColon(ParseLines[k])

\* C7: a marker line whose line-number field is no integer contributes no
\* entry: no entry has a NaN line number, and there are exactly as many
\* entries as marker lines with two colons and an integer number field.
C7_NonIntegerLineSkipped ==
    pc = "parse_done" =>
        /\ \A e \in 1..Len(parsed) : ~parsed[e].line_number.nan
        /\ Len(parsed) = Cardinality({k \in 1..Len(ParseLines) :
                            /\ IsMarkerLine(ParseLines[k])
                            /\ Cardinality(ColonIdx(ParseLines[k])) >= 2
                            /\ IsIntegerText(NumberField(ParseLines[k]))})
\* a line whose trimmed form is 'LINE_COMMENT: N: C', N an optionally
\* signed decimal integer and C free of colons
WellFormedLine(l) ==
    /\ IsMarkerLine(l)
    /\ Cardinality(ColonIdx(l)) = 2
    /\ IsIntegerText(NumberField(l))

\* the integer an optionally signed decimal text denotes
IntegerValue(f) ==
    IF f[1] = "-" THEN 0 - DecimalValue(SubSeq(f, 2, Len(f)))
    ELSE IF f[1] = "+" THEN DecimalValue(SubSeq(f, 2, Len(f)))
    ELSE DecimalValue(f)

\* marker lines with at least the two colons of the format
HasBothColons(l) == IsMarkerLine(l) /\ Cardinality(ColonIdx(l)) >= 2

\* how many of the first k lines have the marker and both colons
EntryIndex(k) == Cardinality({j \in 1..k : HasBothColons(ParseLines[j])})

\* C21: a line 'LINE_COMMENT: N: C' with N a decimal integer and C free of
\* colons gives exactly one entry, with line_number N, comment C trimmed and
\* chunk_index the chunkIndex passed in.
C21_WellFormedLineGivesOneEntry ==
    pc = "parse_done" =>
        /\ Len(parsed) = EntryIndex(Len(ParseLines))
        /\ \A k \in 1..Len(ParseLines) :
               WellFormedLine(ParseLines[k]) =>
                   parsed[EntryIndex(k)] =
                       [line_number |-> Num(IntegerValue(NumberField(ParseLines[k]))),
                        comment |-> AfterSecondColon(ParseLines[k]),
                        chunk_index |-> parseArgs.chunkIndex]

\* '  LINE_COMMENT: 7: x ' after 'LINE_COMMENT: 42: fix this', chunk 1
C21_Witness ==
    /\ pc = "parse_done"
    /\ parseArgs.chunkIndex = 1
    /\ ParseLines = <<R_Fix, R_Padded>>
    /\ parsed = <<[line_number |-> Num(42), comment |-> <<"f","i","x"," ","t","h","i","s">>, chunk_index |-> 1],
                  [line_number |-> Num(7), comment |-> <<"x">>, chunk_index |-> 1]>>

\* C22: entries come only from lines whose trimmed form starts with the
\* marker, in the order of those lines, and all carry the chunkIndex passed
\* in: the entries of a response are the entries of its lines taken alone,
\* one line after the other, and a line without the marker has none.
C22_OnlyMarkerLinesInOrder ==
    pc = "parse_done" =>
        LET alone(k) == parseLineComments(ParseLines[k], parseArgs.chunkIndex)
            upTo(k) == Cardinality({j \in 1..k : alone(j) # <<>>})
        IN /\ \A e \in 1..Len(parsed) : parsed[e].chunk_index = parseArgs.chunkIndex
           /\ \A k \in 1..Len(ParseLines) :
                  /\ ~IsMarkerLine(ParseLines[k]) => alone(k) = <<>>
                  /\ Len(alone(k)) <= 1
                  /\ alone(k) # <<>> =>
                         /\ upTo(k) <= Len(parsed)
                         /\ parsed[upTo(k)] = alone(k)[1]
           /\ Len(parsed) = upTo(Len(ParseLines))

\* two different marker lines around no prose: two entries, in line order
C22_Witness ==
    /\ pc = "parse_done"
    /\ parseArgs.chunkIndex = 1
    /\ ParseLines = <<R_Zero, R_Fix>>
    /\ Len(parsed) = 2
    /\ parsed[1].line_number = Num(0)
    /\ parsed[2].line_number = Num(42)

\* C23: every entry has an integer line_number >= 1 and a non-empty
\* comment; marker lines with line 0, a negative line or no comment text
\* give no entry.
C23_EntriesAreValid ==
    pc = "parse_done" =>
        \A e \in 1..Len(parsed) :
            /\ ~parsed[e].line_number.nan
            /\ parsed[e].line_number.n >= 1
            /\ parsed[e].comment # <<>>

(***************************************************************************)
(* Claims about generateAIReview and the /analyze-pr handler.              *)
(***************************************************************************)
AIApis == {"anthropic", "responses", "chat"}

\* the AI call for index idx (a chunk index, or SummaryIdx) failed: the
\* Anthropic request threw, or both OpenAI requests did
AICallFailed(idx) ==
    \E k \in 1..Len(log) :
        log[k].idx = idx /\ log[k].api \in {"anthropic", "chat"} /\ ~log[k].ok

\* a request for index idx was sent to the AI provider
AICallSent(idx) ==
    \E k \in 1..Len(log) : log[k].idx = idx /\ log[k].api \in AIApis

\* the entries of the returned line_comments that come from chunk c
CommentsOfChunk(c) ==
    LET FromC(e) == e.chunk_index = c
    IN SelectSeq(httpResponse.body.line_comments, FromC)

\* C8: when the summary AI call fails, the request succeeds and its
\* review_comment is generateFallbackReview(request).
C8_SummaryFailureGivesFallback ==
    (pc = "done" /\ AICallFailed(SummaryIdx)) =>
        /\ httpResponse.status = 200
        /\ httpResponse.body.review_comment = generateFallbackReview(Request)

\* C9: a failed AI call for chunk c contributes no line comment, every later
\* chunk is still sent to the provider and its answer parsed, the summary
\* call is made and a result is returned.
C9_ChunkFailureIsNotFatal ==
    pc = "done" =>
        \A c \in 0..(Len(diffChunks) - 1) :
            AICallFailed(c) =>
                /\ CommentsOfChunk(c) = <<>>
                /\ \A d \in (c + 1)..(Len(diffChunks) - 1) :
                      /\ AICallSent(d)
                      /\ \A k \in 1..Len(log) :
                            (log[k].idx = d /\ log[k].api \in AIApis /\ log[k].ok) =>
                                CommentsOfChunk(d) = parseLineComments(log[k].text, d)
                /\ AICallSent(SummaryIdx)
                /\ httpResponse.status = 200

\* C9 witness: the call for the first of two chunks failed and the second
\* chunk contributed a comment to the returned result.
C9_Witness ==
    /\ pc = "done"
    /\ Len(diffChunks) = 2
    /\ AICallFailed(0)
    /\ CommentsOfChunk(1) # <<>>

RECURSIVE ParsedFromLog(_)
ParsedFromLog(k) ==
    IF k > Len(log) THEN <<>>
    ELSE (IF log[k].api \in AIApis /\ log[k].idx >= 0 /\ log[k].ok
          THEN parseLineComments(log[k].text, log[k].idx)
          ELSE <<>>) \o ParsedFromLog(k + 1)

\* the line comment with index m was sent to the review-comment endpoint
Posted(m) == \E k \in 1..Len(log) : log[k].api = "review_comment" /\ log[k].idx = m

\* the line comment with index m resolves in the diff fetched for it
ResolvedInFetchedDiff(m) ==
    \E k \in 1..Len(log) :
        /\ log[k].api = "get_diff" /\ log[k].idx = m /\ log[k].ok
        /\ findFileAndPositionForLine(DiffTable[log[k].diff],
               httpResponse.body.line_comments[m + 1].line_number).position >= 1

SomeCallFailed == \E k \in 1..Len(log) : ~log[k].ok

\* C11: for a well-formed request the handler never enters its catch block,
\* whatever external calls fail: it ends with res.json(reviewData), status 200.
C11_FailuresNeverGive500 ==
    WellFormed(Request) =>
        /\ pc # "error"
        /\ pc = "done" => (httpResponse.status = 200 /\ httpResponse.body = reviewData)

\* C11 witness: a request ended although an AI request, the summary POST, a
\* GET and a line-comment POST all failed.
C11_Witness ==
    /\ pc = "done"
    /\ WellFormed(Request)
    /\ \E k \in 1..Len(log) : log[k].api \in AIApis /\ ~log[k].ok
    /\ \E k \in 1..Len(log) : log[k].api = "issue_comment" /\ ~log[k].ok
    /\ \E k \in 1..Len(log) : log[k].api \in {"get_pr", "get_diff"} /\ ~log[k].ok
    /\ \E k \in 1..Len(log) : log[k].api = "review_comment" /\ ~log[k].ok

\* C12: a request body that lacks one of the required properties is
\* answered with an error (a status other than 200).
C12_MissingFieldRejected ==
    (pc = "done" /\ ~WellFormed(Request)) => httpResponse.status # 200

\* the positions in the history of the requests sent to the AI provider for
\* index idx (a chunk index, or SummaryIdx)
AIRequestsFor(idx) == {k \in 1..Len(log) : log[k].api \in AIApis /\ log[k].idx = idx}

AIIndexes == (0..(Len(diffChunks) - 1)) \cup {SummaryIdx}

\* C13 as stated: for each chunk and for the summary at most one request is
\* sent to the AI provider.
C13_AtMostOneProviderRequest ==
    \A idx \in AIIndexes : Cardinality(AIRequestsFor(idx)) <= 1

\* C13 amended: for each chunk and for the summary no endpoint of the
\* provider is requested twice, and the only second request for a prompt is
\* the chat.completions request that directly follows a failed responses
\* request for the same prompt.
C13_SecondRequestOnlyChatAfterResponses ==
    \A idx \in AIIndexes :
        /\ \A k \in AIRequestsFor(idx) : \A m \in AIRequestsFor(idx) :
              log[k].api = log[m].api => k = m
        /\ \A k \in AIRequestsFor(idx) :
              (\E m \in AIRequestsFor(idx) : m < k) =>
                  /\ log[k].api = "chat"
                  /\ log[k - 1].api = "responses"
                  /\ log[k - 1].idx = idx
                  /\ ~log[k - 1].ok

\* C13 witness: both OpenAI requests for the first chunk failed, and the
\* handler went on to the summary and ended.
C13_Witness ==
    /\ pc = "done"
    /\ \E k \in AIRequestsFor(0) : log[k].api = "chat" /\ ~log[k].ok
    /\ Cardinality(AIRequestsFor(0)) = 2
    /\ AIRequestsFor(SummaryIdx) # {}

\* the comments parsed from the answer the provider gave for chunk c; none
\* when no request for chunk c was answered
ParsedOfChunk(c) ==
    LET answered == {k \in AIRequestsFor(c) : log[k].ok}
    IN IF answered = {} THEN <<>>
       ELSE parseLineComments(log[CHOOSE k \in answered : TRUE].text, c)

\* C14: in the returned line_comments an entry of a smaller chunk_index
\* comes before an entry of a larger one, and the entries of one chunk are
\* the comments parsed from that chunk's response, in the order of the
\* response.
C14_CommentsInChunkOrder ==
    (pc = "done" /\ httpResponse.status = 200) =>
        LET lc == httpResponse.body.line_comments
        IN /\ \A a \in 1..Len(lc) : \A b \in 1..Len(lc) :
                 a < b => lc[a].chunk_index <= lc[b].chunk_index
           /\ \A c \in 0..(Len(diffChunks) - 1) : CommentsOfChunk(c) = ParsedOfChunk(c)
           /\ \A a \in 1..Len(lc) : lc[a].chunk_index \in 0..(Len(diffChunks) - 1)

\* C14 witness: two chunks, the first answered with two comments, the
\* second with one; the result lists the three in that order.
C14_Witness ==
    /\ pc = "done"
    /\ httpResponse.status = 200
    /\ Len(diffChunks) = 2
    /\ Len(ParsedOfChunk(0)) = 2
    /\ Len(ParsedOfChunk(1)) = 1
    /\ httpResponse.body.line_comments = ParsedOfChunk(0) \o ParsedOfChunk(1)

\* the AI backend was unavailable: no request to the provider was answered
\* (none was sent because no provider is configured, or every one threw)
AIUnavailable == \A k \in 1..Len(log) : log[k].api \in AIApis => ~log[k].ok

\* C16: when the AI backend is unavailable for the chunk calls and for the
\* summary call, the result has no line comment and overall_score 8,
\* whatever the request contains.
C16_UnavailableGivesEmptyAndEight ==
    (pc = "done" /\ httpResponse.status = 200 /\ AIUnavailable) =>
        /\ httpResponse.body.line_comments = <<>>
        /\ httpResponse.body.overall_score = DefaultScore

\* the resolver's result for the comment a review_comment event at index i
\* of the log belongs to: the event follows the get_diff of the same comment
ResolverResultAt(i) ==
    findFileAndPositionForLine(DiffTable[log[i - 1].diff],
                               reviewData.line_comments[log[i].idx + 1].line_number)

\* C24: every comment sent to the review-comment endpoint has the path the
\* resolver returned for its line number, side RIGHT, and is anchored at the
\* diff position (>= 1) the resolver returned, not at the AI's line number.
C24_PostedAtResolverPosition ==
    \A i \in 1..Len(log) :
        log[i].api = "review_comment" =>
            /\ log[i - 1].api = "get_diff"
            /\ log[i].path = ResolverResultAt(i).filePath
            /\ log[i].side = "RIGHT"
            /\ ResolverResultAt(i).position >= 1
            /\ log[i].line = Num(ResolverResultAt(i).position)

\* the get_diff event at index k of the log fetched a diff in which the
\* line number of its comment does not resolve
UnresolvedAt(k) ==
    /\ log[k].api = "get_diff"
    /\ log[k].ok
    /\ LET r == findFileAndPositionForLine(DiffTable[log[k].diff],
                    reviewData.line_comments[log[k].idx + 1].line_number)
       IN r.filePath = null \/ r.position = -1

\* the handler has called postLineComment for the line comment with index m
Processed(m) == \E k \in 1..Len(log) : log[k].api = "get_pr" /\ log[k].idx = m

\* C28: a line comment whose line number does not resolve in the fetched
\* diff is never sent to the review-comment endpoint; postLineComment
\* returns normally: the next event is the GET for the next line comment,
\* every later line comment is processed and the request is answered 200.
C28_UnresolvedSkippedOthersProcessed ==
    \A k \in 1..Len(log) :
        UnresolvedAt(k) =>
            /\ \A j \in 1..Len(log) :
                   ~(log[j].api = "review_comment" /\ log[j].idx = log[k].idx)
            /\ k < Len(log) =>
                   (log[k + 1].api = "get_pr" /\ log[k + 1].idx = log[k].idx + 1)
            /\ pc # "error"
            /\ pc = "done" =>
                   /\ httpResponse.status = 200
                   /\ \A m \in (log[k].idx + 1)..(Len(reviewData.line_comments) - 1) :
                          Processed(m)

\* the first of two comments did not resolve and was not posted; the second
\* was still processed and posted
C28_Witness ==
    /\ pc = "done"
    /\ Len(reviewData.line_comments) = 2
    /\ \E k \in 1..Len(log) : UnresolvedAt(k) /\ log[k].idx = 0
    /\ Processed(1)
    /\ \E k \in 1..Len(log) : log[k].api = "review_comment" /\ log[k].idx = 1 /\ log[k].ok

GitHubApis == {"issue_comment", "get_pr", "get_diff", "review_comment"}

\* the place of an event in the order of one request: the chunk AI calls by
\* chunk index (responses before chat), the summary AI call, the summary
\* POST, then per line comment the GET of the pull request, the GET of the
\* diff and the POST
EventRank(e) ==
    IF e.api \in AIApis
    THEN <<IF e.idx = SummaryIdx THEN 1 ELSE 0, e.idx, IF e.api = "chat" THEN 1 ELSE 0>>
    ELSE IF e.api = "issue_comment" THEN <<2, 0, 0>>
    ELSE <<3, e.idx, IF e.api = "get_pr" THEN 0 ELSE IF e.api = "get_diff" THEN 1 ELSE 2>>

RankBefore(a, b) ==
    \/ a[1] < b[1]
    \/ a[1] = b[1] /\ a[2] < b[2]
    \/ a[1] = b[1] /\ a[2] = b[2] /\ a[3] < b[3]

\* C29: the events of one request are in order: the chunk AI calls by chunk
\* index, every chunk before the summary AI call, then the summary POST,
\* then the line comments by index, then the HTTP response; a request whose
\* github_token is empty or absent makes no GitHub call.
C29_EventsInOrder ==
    /\ \A i, j \in 1..Len(log) : i < j => RankBefore(EventRank(log[i]), EventRank(log[j]))
    /\ \A k \in 1..Len(log) :
           log[k].api \in AIApis /\ log[k].idx = SummaryIdx =>
               \A c \in 0..(Len(diffChunks) - 1) : \E i \in 1..(k - 1) : log[i].idx = c
    /\ \A k \in 1..Len(log) :
           log[k].api \in GitHubApis \ {"issue_comment"} =>
               \E i \in 1..(k - 1) : log[i].api = "issue_comment"
    /\ httpResponse # NoResponse => pc = "done"
    /\ (pc = "done" /\ httpResponse.status = 200 /\ Truthy(Field(Request, "github_token"))) =>
           /\ \E i \in 1..Len(log) : log[i].api = "issue_comment"
           /\ \A m \in 0..(Len(reviewData.line_comments) - 1) : Processed(m)
    /\ ~Truthy(Field(Request, "github_token")) =>
           \A k \in 1..Len(log) : log[k].api \notin GitHubApis

\* a request with a token: chunk call, summary call, summary POST, both line
\* comments posted, answered
C29_Witness ==
    /\ pc = "done"
    /\ httpResponse.status = 200
    /\ [k \in 1..Len(log) |-> log[k].api] =
           <<"responses", "chat", "responses", "issue_comment", "get_pr", "get_diff",
             "review_comment", "get_pr", "get_diff", "review_comment">>

(***************************************************************************)
(* Claims about two requests in flight.                                    *)
(***************************************************************************)
\* the comments parsed from the answers an invocation with history l got
\* for its chunks, in call order
RECURSIVE ParsedFrom(_, _)
ParsedFrom(l, k) ==
    IF k > Len(l) THEN <<>>
    ELSE (IF l[k].api \in AIApis /\ l[k].idx >= 0 /\ l[k].ok
          THEN parseLineComments(l[k].text, l[k].idx)
          ELSE <<>>) \o ParsedFrom(l, k + 1)

\* the comments parsed from the fallback review of request r, for each of
\* its chunks from index c on
RECURSIVE ParsedFromFallback(_, _)
ParsedFromFallback(r, c) ==
    IF c >= Len(ChunksOfRequest[r]) THEN <<>>
    ELSE parseLineComments(generateFallbackReview(RequestTable[r]), c)
            \o ParsedFromFallback(r, c + 1)

\* the line comments that request r and the answers in l give
OwnLineComments(l, r) ==
    IF UseAnthropic \/ UseOpenAI THEN ParsedFrom(l, 1) ELSE ParsedFromFallback(r, 0)

\* the review comment that request r and the answers in l give
OwnReviewComment(l, r) ==
    LET sent == {k \in 1..Len(l) : l[k].api \in AIApis /\ l[k].idx = SummaryIdx}
    IN IF sent = {} THEN generateFallbackReview(RequestTable[r])
       ELSE LET k == CHOOSE m \in sent : \A n \in sent : n <= m
            IN IF l[k].ok THEN l[k].text
               ELSE IF l[k].api = "anthropic" THEN ErrAnthropic ELSE ErrOpenAI

\* the response that the request of an invocation and the answers to its
\* own external calls give
OwnResponse(loc) ==
    IF GenerateThrows(RequestTable[loc.requestId])
    THEN [status |-> 500, body |-> ErrorBody]
    ELSE LET comment == OwnReviewComment(loc.log, loc.requestId)
         IN [status |-> 200,
             body |-> [review_comment |-> comment,
                       line_comments |-> OwnLineComments(loc.log, loc.requestId),
                       suggestions |-> extractSuggestions(comment),
                       issues |-> extractIssues(comment),
                       overall_score |-> extractScore(comment)]]

\* C15: with two requests in flight and their steps interleaved at the
\* awaits, the response of each is the one its own request and the answers
\* to its own calls give; nothing of the other request is in it.
C15_ResponseFromOwnRequest ==
    \A loc \in {RunningLocals, suspended} :
        loc.pc = "done" => loc.httpResponse = OwnResponse(loc)

\* C15 witness: one invocation has ended with no line comment in its
\* response while the other, which had already collected a comment, waits
\* for its summary.
C15_Witness ==
    /\ pc = "done"
    /\ httpResponse.status = 200
    /\ log # <<>>
    /\ httpResponse.body.line_comments = <<>>
    /\ suspended.pc = "summary"
    /\ suspended.lineComments # <<>>
(***************************************************************************)
(* Claims about extractScore, extractSuggestions and extractIssues.        *)
(***************************************************************************)
ExtractLines == Split(extractArgs.text, NL)

\* what pattern p of the five captures when it is matched at index k of the
\* text (<<>>: no match there); a number is matched from its first digit
CaptureAt(text, p, k) ==
    IF p = 1 THEN WordThenNumberAt(text, k, <<"s", "c", "o", "r", "e">>)
    ELSE IF p = 2 THEN WordThenNumberAt(text, k, <<"r", "a", "t", "i", "n", "g">>)
    ELSE IF p = 5 THEN WordThenNumberAt(text, k, <<"o", "v", "e", "r", "a", "l", "l">>)
    ELSE IF k > 1 /\ IsDigit(text[k - 1]) THEN <<>>
    ELSE IF p = 3 THEN NumberSlashTenAt(text, k)
    ELSE NumberOutOfTenAt(text, k)

\* the integers in 1..10 captured by the occurrences of the patterns
InRangeCaptures(text) ==
    {v \in 1..10 : \E p \in 1..5, k \in 1..Len(text) :
                       /\ CaptureAt(text, p, k) # <<>>
                       /\ DecimalValue(CaptureAt(text, p, k)) = v}

\* C25: extractScore returns an integer in 1..10 captured by an occurrence
\* of one of the patterns whenever there is one, and 8 only when no
\* occurrence of any pattern captures an integer in 1..10;
\* 'Overall: 7/10' gives 7 and 'no score mentioned' gives 8.
C25_ScoreIsACapturedInteger ==
    pc = "extract_done" =>
        /\ InRangeCaptures(extractArgs.text) # {} =>
               extracted.overall_score \in InRangeCaptures(extractArgs.text)
        /\ InRangeCaptures(extractArgs.text) = {} => extracted.overall_score = 8
        /\ extractArgs.text = X_Overall => extracted.overall_score = 7
        /\ extractArgs.text = X_NoScore => extracted.overall_score = 8

\* C26: the overall_score of a result is an integer in 1..10, whatever the
\* text; 0, 11 or 100 after a score pattern are not returned.
C26_ScoreInRange ==
    pc = "extract_done" => extracted.overall_score \in 1..10

\* 'score: 11' and 'rating: 0': both captures are out of range, the result
\* is the default
C26_Witness ==
    /\ pc = "extract_done"
    /\ ExtractLines = <<X_Score11, X_Rating0>>
    /\ extracted.overall_score = 8

\* the lines of the text that contain one of the words, letter case ignored,
\* each trimmed and without a leading '- ' or '* ': the first 10 of them
ListedLines(words) ==
    LET has(l) == \E w \in words : Includes(ToLower(Trim(l)), w)
        hits == SelectSeq(ExtractLines, has)
        entry(l) == IF StartsWith(Trim(l), <<"-", " ">>) \/ StartsWith(Trim(l), <<"*", " ">>)
                    THEN SubSeq(Trim(l), 3, Len(Trim(l)))
                    ELSE Trim(l)
        all == [i \in 1..Len(hits) |-> entry(hits[i])]
    IN IF Len(all) > 10 THEN SubSeq(all, 1, 10) ELSE all

\* C27: extractSuggestions and extractIssues return, in order, the first at
\* most 10 lines that contain one of their keywords, letter case ignored,
\* without a leading bullet; never more than 10 entries.
C27_KeywordLinesCappedAtTen ==
    pc = "extract_done" =>
        /\ extracted.suggestions = ListedLines(SuggestionKeywords)
        /\ extracted.issues = ListedLines(IssueKeywords)
        /\ Len(extracted.suggestions) <= 10
        /\ Len(extracted.issues) <= 10

\* a text with more than 10 keyword lines: 10 entries, the tenth from line 10
C27_Witness ==
    /\ pc = "extract_done"
    /\ Len(ExtractLines) > 10
    /\ Len(extracted.suggestions) = 10
    /\ extracted.issues[10] = <<"s","h","o","u","l","d"," ","b","u","g"," ","j">>

====
